---- MODULE Spec2Model ----
(***************************************************************************)
(* DragonTigerBot: the betting progression engine (betting_logic.py), the  *)
(* desktop round loop (main.py, BotWorker) and the web round loop and its  *)
(* request handlers (web_app.py).                                          *)
(*                                                                         *)
(* Monetary amounts are integers (units of the smallest stake); the code   *)
(* uses floats, and every operation on them here is an exact product.      *)
(* Python's None is the string "None".                                     *)
(***************************************************************************)
EXTENDS Integers, Sequences, FiniteSets, TLC

VARIABLES
    strategy,   \* harness: one strategy object (betting_logic.py); two in SpecPair
    call,       \* harness: the last method called on it, with argument and result
    consumed,   \* harness: every outcome update_history was called with, in order
    impl,       \* which front end runs: "main" (main.py), "web" (web_app.py), "none"
    wk,         \* the workers: BotWorker objects (main) or bot threads (web), by id
    ui,         \* main.py: the DragonTigerUI fields and its queue of worker signals
    config,     \* the [BETTING] settings (config.ini, the UI controls)
    budget,     \* start and stop requests the environment will still issue
    bot_state,  \* web_app.py: the global bot_state dictionary
    reqs        \* web_app.py: the HTTP requests being handled, by id

stratVars == <<strategy, call, consumed>>
orchVars == <<impl, config, budget, wk, ui, bot_state, reqs>>
vars == <<strategy, call, consumed, impl, config, budget, wk, ui, bot_state, reqs>>

None == "None"
NoWorker == 0      \* None where a worker (thread) is expected
NoBalance == -1    \* None where a balance is expected
NoStrategy == [kind |-> None]      \* no strategy object yet
NoConfig == [strategy |-> None]    \* no settings read yet

\* ---------------------------------------------------------------- bounds
MaxUpdates == 6     \* update_history calls explored from a fresh strategy
MaxStreak == 10     \* ... extended to this many for an unbroken loss streak
MaxRing == 52       \* ... and to this many for a sequence of period 2
MaxBase == 2        \* base amounts explored: 1..MaxBase
MaxLossesCfg == 2   \* max_consecutive_losses settings explored: 1..MaxLossesCfg

MaxRounds == 2      \* bets the controller accepts in a one-session run
MaxWorkers == 2     \* worker objects (BotWorker, bot thread) created in one run
MaxRequests == 3    \* HTTP requests handled in one run
MaxWait == 2        \* wait_time settings explored: 0 to MaxWait seconds

BaseAmounts == 1..MaxBase
MaxLossesSettings == 1..MaxLossesCfg

\* ------------------------------------------------------- program constants
max_history_length == 50
MartingaleCap == 8
DEFAULT_wins_to_reset == 3

StrategyNames == {"BettingStrategy", "Martingale", "Fibonacci", "D'Alembert", "Paroli"}
ValidSides == {"dragon", "tiger", "auto"}
Results == {"win", "loss", "tie"}

\* GameController.get_game_state: None, or a dictionary with the table's history
NoGameState == [failed |-> TRUE]
GameStates ==
    { [history |-> <<>>], [history |-> <<"dragon">>], [history |-> <<"tiger", "tie">>] }

\* ------------------------------------------------------------- arithmetic
RECURSIVE Pow2(_)
Pow2(n) == IF n <= 0 THEN 1 ELSE 2 * Pow2(n - 1)

Min(a, b) == IF a < b THEN a ELSE b
Max(a, b) == IF a > b THEN a ELSE b

\* ------------------------------------------------------ betting_logic.py
\* BettingStrategy.__init__ and the subclasses' __init__.
NewStrategy(kind, preferred_side) ==
    [ kind |-> kind,
      history |-> <<>>,
      consecutive_losses |-> 0,
      consecutive_wins |-> 0,
      preferred_side |-> IF preferred_side \in ValidSides THEN preferred_side ELSE "auto",
      fib_sequence |-> IF kind = "Fibonacci" THEN <<1, 1>> ELSE <<>>,
      current_fib_index |-> 0,
      current_bet_unit_multiplier |-> 1,
      wins_to_reset |-> DEFAULT_wins_to_reset ]

\* mutant: on 'auto' the base class changes side while it is losing
BettingStrategy_analyze_LeavesLoser(s, game_state) ==
    IF s.preferred_side = "dragon" THEN "dragon"
    ELSE IF s.preferred_side = "tiger" THEN "tiger"
    ELSE IF s.consecutive_losses % 2 = 1 THEN "tiger"
    ELSE "dragon"

\* BettingStrategy.analyze
BettingStrategy_analyze(s, game_state) ==
    IF s.preferred_side = "dragon" THEN "dragon"
    ELSE IF s.preferred_side = "tiger" THEN "tiger"
    ELSE "dragon"

\* mutant: the sides of the alternation are swapped
FibonacciStrategy_analyze_Swapped(s, game_state) ==
    IF s.preferred_side \in {"dragon", "tiger"} THEN s.preferred_side
    ELSE IF Len(s.history) % 2 = 0 THEN "tiger" ELSE "dragon"

\* FibonacciStrategy.analyze
FibonacciStrategy_analyze(s, game_state) ==
    IF s.preferred_side \in {"dragon", "tiger"} THEN s.preferred_side
    ELSE IF Len(s.history) % 2 = 0 THEN "dragon" ELSE "tiger"

\* mutant: the side that came last on the table is followed, whatever the
\* preference
DAlembertStrategy_analyze_FollowsTable(s, game_state) ==
    LET h == game_state.history
    IN  IF Len(h) > 0 /\ h[Len(h)] \in {"dragon", "tiger"} THEN h[Len(h)]
        ELSE IF s.preferred_side \in {"dragon", "tiger"} THEN s.preferred_side
        ELSE BettingStrategy_analyze(s, game_state)

\* DAlembertStrategy.analyze
DAlembertStrategy_analyze(s, game_state) ==
    IF s.preferred_side \in {"dragon", "tiger"} THEN s.preferred_side
    ELSE BettingStrategy_analyze(s, game_state)

analyze(s, game_state) ==
    CASE s.kind = "Fibonacci" -> FibonacciStrategy_analyze(s, game_state)
      [] s.kind = "D'Alembert" -> DAlembertStrategy_analyze(s, game_state)
      [] OTHER -> BettingStrategy_analyze(s, game_state)

\* mutant: the limit is compared with <=, one loss too many is allowed
BettingStrategy_should_continue_OffByOne(s, max_losses) ==
    s.consecutive_losses <= max_losses

\* BettingStrategy.should_continue (ParoliStrategy.should_continue calls it)
BettingStrategy_should_continue(s, max_losses) ==
    s.consecutive_losses < max_losses

\* mutant: Paroli ignores the limit, as the parameter's name suggests
ParoliStrategy_should_continue_Ignored(s, max_consecutive_losses_ignored) == TRUE

\* ParoliStrategy.should_continue
ParoliStrategy_should_continue(s, max_consecutive_losses_ignored) ==
    BettingStrategy_should_continue(s, max_consecutive_losses_ignored)

should_continue(s, max_losses) ==
    IF s.kind = "Paroli" THEN ParoliStrategy_should_continue(s, max_losses)
    ELSE BettingStrategy_should_continue(s, max_losses)

\* mutant: the entry evicted is the newest one
AppendHistory_EvictsNewest(h, result) ==
    LET h1 == Append(h, result)
    IN  IF Len(h1) > max_history_length THEN SubSeq(h1, 1, Len(h1) - 1) ELSE h1

\* the history list after append and the eviction of the oldest entry
AppendHistory(h, result) ==
    LET h1 == Append(h, result)
    IN  IF Len(h1) > max_history_length THEN Tail(h1) ELSE h1

\* mutant: a tie resets the loss streak as a win does
BettingStrategy_update_history_TieResets(s, result) ==
    LET s1 == IF result = "loss"
                 THEN [s EXCEPT !.consecutive_losses = @ + 1, !.consecutive_wins = 0]
              ELSE IF result = "win"
                 THEN [s EXCEPT !.consecutive_losses = 0, !.consecutive_wins = @ + 1]
              ELSE [s EXCEPT !.consecutive_losses = 0]
    IN  [s1 EXCEPT !.history = AppendHistory(@, result)]

\* BettingStrategy.update_history
BettingStrategy_update_history(s, result) ==
    LET s1 == IF result = "loss"
                 THEN [s EXCEPT !.consecutive_losses = @ + 1, !.consecutive_wins = 0]
              ELSE IF result = "win"
                 THEN [s EXCEPT !.consecutive_losses = 0, !.consecutive_wins = @ + 1]
              ELSE s
    IN  [s1 EXCEPT !.history = AppendHistory(@, result)]

\* mutant: a loss advances the cursor without looking at the sequence's length
FibonacciStrategy_update_history_NoCap(s, outcome) ==
    LET s1 == BettingStrategy_update_history(s, outcome)
    IN  IF outcome = "win" THEN [s1 EXCEPT !.current_fib_index = 0]
        ELSE IF outcome = "loss" THEN [s1 EXCEPT !.current_fib_index = @ + 1]
        ELSE s1

\* FibonacciStrategy.update_history
FibonacciStrategy_update_history(s, outcome) ==
    LET s1 == BettingStrategy_update_history(s, outcome)
    IN  IF outcome = "win" THEN [s1 EXCEPT !.current_fib_index = 0]
        ELSE IF outcome = "loss"
           THEN IF s1.current_fib_index < Len(s1.fib_sequence) - 1
                   THEN [s1 EXCEPT !.current_fib_index = @ + 1]
                   ELSE s1
        ELSE s1

\* mutant: the multiplier is decreased without the floor of 1
DAlembertStrategy_update_history_NoFloor(s, result) ==
    LET s1 == BettingStrategy_update_history(s, result)
    IN  IF result = "win"
           THEN [s1 EXCEPT !.current_bet_unit_multiplier = @ - 1]
        ELSE IF result = "loss"
           THEN [s1 EXCEPT !.current_bet_unit_multiplier = @ + 1]
        ELSE s1

\* DAlembertStrategy.update_history
DAlembertStrategy_update_history(s, result) ==
    LET s1 == BettingStrategy_update_history(s, result)
    IN  IF result = "win"
           THEN [s1 EXCEPT !.current_bet_unit_multiplier = Max(1, @ - 1)]
        ELSE IF result = "loss"
           THEN [s1 EXCEPT !.current_bet_unit_multiplier = @ + 1]
        ELSE s1

\* mutant: Paroli keeps its count of wins over a loss
ParoliStrategy_update_history_KeepsWins(s, outcome) ==
    LET s1 == BettingStrategy_update_history(s, outcome)
    IN  IF outcome = "loss" THEN [s1 EXCEPT !.consecutive_wins = s.consecutive_wins]
        ELSE s1

\* ParoliStrategy.update_history
ParoliStrategy_update_history(s, outcome) ==
    BettingStrategy_update_history(s, outcome)

\* mutant: the Martingale object does not clear its loss streak on a win
update_history_MartingaleKeepsLosses(s, result) ==
    CASE s.kind = "Fibonacci" -> FibonacciStrategy_update_history(s, result)
      [] s.kind = "D'Alembert" -> DAlembertStrategy_update_history(s, result)
      [] s.kind = "Paroli" -> ParoliStrategy_update_history(s, result)
      [] s.kind = "Martingale" /\ result = "win" ->
            [BettingStrategy_update_history(s, result) EXCEPT
                !.consecutive_losses = s.consecutive_losses]
      [] OTHER -> BettingStrategy_update_history(s, result)

update_history(s, result) ==
    CASE s.kind = "Fibonacci" -> FibonacciStrategy_update_history(s, result)
      [] s.kind = "D'Alembert" -> DAlembertStrategy_update_history(s, result)
      [] s.kind = "Paroli" -> ParoliStrategy_update_history(s, result)
      [] OTHER -> BettingStrategy_update_history(s, result)

\* BettingStrategy.get_bet_amount
BettingStrategy_get_bet_amount(s, base_amount) == base_amount

\* mutant: the doubling is not capped
MartingaleStrategy_get_bet_amount_NoCap(s, base_amount) ==
    IF s.consecutive_losses = 0 THEN base_amount
    ELSE base_amount * Pow2(s.consecutive_losses)

\* MartingaleStrategy.get_bet_amount
MartingaleStrategy_get_bet_amount(s, base_amount) ==
    IF s.consecutive_losses = 0 THEN base_amount
    ELSE LET effective_losses == Min(s.consecutive_losses, MartingaleCap)
         IN  base_amount * Pow2(effective_losses)

\* FibonacciStrategy.get_bet_amount: the while loop that extends fib_sequence
RECURSIVE FibExtend(_, _)
FibExtend(seq, idx) ==
    IF idx >= Len(seq)
       THEN FibExtend(Append(seq, seq[Len(seq)] + seq[Len(seq) - 1]), idx)
       ELSE seq

\* FibonacciStrategy.get_bet_amount: the value returned
FibonacciStrategy_get_bet_amount(s, base_amount) ==
    IF s.consecutive_losses = 0 THEN base_amount
    ELSE LET seq == FibExtend(s.fib_sequence, s.current_fib_index)
             idx == Min(s.current_fib_index, Len(seq) - 1)
         IN  seq[idx + 1] * base_amount

\* mutant: the sequence is extended up to the entry after the cursor
FibonacciStrategy_get_bet_amount_effect_ExtendsAhead(s) ==
    IF s.consecutive_losses = 0 THEN s
    ELSE [s EXCEPT !.fib_sequence = FibExtend(@, s.current_fib_index + 1)]

\* FibonacciStrategy.get_bet_amount: the object after the call
FibonacciStrategy_get_bet_amount_effect(s) ==
    IF s.consecutive_losses = 0 THEN s
    ELSE [s EXCEPT !.fib_sequence = FibExtend(@, s.current_fib_index)]

\* mutant: the multiplier counts the units above the base stake
DAlembertStrategy_get_bet_amount_UnitsAbove(s, base_amount) ==
    (s.current_bet_unit_multiplier - 1) * base_amount

\* DAlembertStrategy.get_bet_amount
DAlembertStrategy_get_bet_amount(s, base_amount) ==
    s.current_bet_unit_multiplier * base_amount

\* mutant: the reset at the win target is off by one (> for >=)
ParoliStrategy_get_bet_amount_OffByOne(s, base_amount) ==
    IF s.consecutive_wins = 0 \/ s.consecutive_wins > s.wins_to_reset
       THEN base_amount
       ELSE base_amount * Pow2(s.consecutive_wins)

\* ParoliStrategy.get_bet_amount
ParoliStrategy_get_bet_amount(s, base_amount) ==
    IF s.consecutive_wins = 0 \/ s.consecutive_wins >= s.wins_to_reset
       THEN base_amount
       ELSE base_amount * Pow2(s.consecutive_wins)

\* mutant: the Martingale stake goes back to base after a tie as well
get_bet_amount_TieResets(s, base_amount) ==
    CASE s.kind = "Martingale" ->
            IF s.history # <<>> /\ s.history[Len(s.history)] = "tie" THEN base_amount
            ELSE MartingaleStrategy_get_bet_amount(s, base_amount)
      [] s.kind = "Fibonacci" -> FibonacciStrategy_get_bet_amount(s, base_amount)
      [] s.kind = "D'Alembert" -> DAlembertStrategy_get_bet_amount(s, base_amount)
      [] s.kind = "Paroli" -> ParoliStrategy_get_bet_amount(s, base_amount)
      [] OTHER -> BettingStrategy_get_bet_amount(s, base_amount)

get_bet_amount(s, base_amount) ==
    CASE s.kind = "Martingale" -> MartingaleStrategy_get_bet_amount(s, base_amount)
      [] s.kind = "Fibonacci" -> FibonacciStrategy_get_bet_amount(s, base_amount)
      [] s.kind = "D'Alembert" -> DAlembertStrategy_get_bet_amount(s, base_amount)
      [] s.kind = "Paroli" -> ParoliStrategy_get_bet_amount(s, base_amount)
      [] OTHER -> BettingStrategy_get_bet_amount(s, base_amount)

get_bet_amount_effect(s) ==
    IF s.kind = "Fibonacci" THEN FibonacciStrategy_get_bet_amount_effect(s) ELSE s

\* --------------------------------------------- harness over one strategy
NoCall == [op |-> "init", arg |-> None, ret |-> None]

InitStrategy ==
    /\ impl = "none" /\ config = None /\ budget = None
    /\ wk = <<>> /\ ui = None /\ bot_state = None /\ reqs = <<>>
    /\ \E kind \in StrategyNames, side \in ValidSides \cup {"both"} :
          strategy = NewStrategy(kind, side)
    /\ call = NoCall
    /\ consumed = <<>>

\* exploration bound on the outcome sequences fed to one strategy object
CanUpdate ==
    \/ Len(strategy.history) < MaxUpdates
    \/ /\ strategy.consecutive_losses = Len(strategy.history)
       /\ Len(strategy.history) < MaxStreak

\* ... and the sequences of period 2 go on up to MaxRing outcomes
CanRepeat(result) ==
    /\ Len(consumed) >= 2 /\ Len(consumed) < MaxRing
    /\ \A i \in 3..Len(consumed) : consumed[i] = consumed[i - 2]
    /\ result = consumed[Len(consumed) - 1]

\* mutant: a tie met after the Paroli target was reached restarts the streak
CallUpdateHistory_TieRestarts ==
    /\ UNCHANGED orchVars
    /\ \E result \in Results :
          /\ CanUpdate \/ CanRepeat(result)
          /\ strategy' =
                IF /\ strategy.kind = "Paroli" /\ result = "tie"
                   /\ strategy.consecutive_wins >= strategy.wins_to_reset
                   THEN [update_history(strategy, result) EXCEPT !.consecutive_wins = 1]
                   ELSE update_history(strategy, result)
          /\ consumed' = Append(consumed, result)
          /\ call' = [op |-> "update_history", arg |-> result, ret |-> None]

CallUpdateHistory ==
    /\ UNCHANGED orchVars
    /\ \E result \in Results :
          /\ CanUpdate \/ CanRepeat(result)
          /\ strategy' = update_history(strategy, result)
          /\ consumed' = Append(consumed, result)
          /\ call' = [op |-> "update_history", arg |-> result, ret |-> None]

CallGetBetAmount ==
    /\ UNCHANGED orchVars
    /\ UNCHANGED consumed
    /\ \E base_amount \in BaseAmounts :
       /\ strategy' = get_bet_amount_effect(strategy)
       /\ call' = [op |-> "get_bet_amount", arg |-> base_amount,
                   ret |-> get_bet_amount(strategy, base_amount)]

CallAnalyze ==
    /\ UNCHANGED orchVars
    /\ UNCHANGED <<strategy, consumed>>
    /\ \E game_state \in GameStates :
          call' = [op |-> "analyze", arg |-> game_state,
                   ret |-> analyze(strategy, game_state)]

CallShouldContinue ==
    /\ UNCHANGED orchVars
    /\ UNCHANGED consumed
    /\ \E max_losses \in MaxLossesSettings :
       /\ strategy' = strategy
       /\ call' = [op |-> "should_continue", arg |-> max_losses,
                   ret |-> should_continue(strategy, max_losses)]

NextStrategy ==
    \/ CallUpdateHistory
    \/ CallGetBetAmount
    \/ CallAnalyze
    \/ CallShouldContinue

SpecStrategy == InitStrategy /\ [][NextStrategy]_vars

\* ------------------------- harness over two strategy objects of one kind
\* two objects built alike; each is fed its own outcomes and shown its own
\* game states, one call on the one and the same call on the other
MaxPairUpdates == 3   \* update_history calls explored on each object
MaxPairRing == 52     \* ... extended to this many while each repeats one outcome

InitPair ==
    /\ impl = "none" /\ config = None /\ budget = None
    /\ wk = <<>> /\ ui = None /\ bot_state = None /\ reqs = <<>>
    /\ \E kind \in StrategyNames, side \in ValidSides \cup {"both"} :
          strategy = <<NewStrategy(kind, side), NewStrategy(kind, side)>>
    /\ call = NoCall
    /\ consumed = << <<>>, <<>> >>

\* every outcome so far on object i was result
Constant(i, result) == \A k \in 1..Len(consumed[i]) : consumed[i][k] = result

PairUpdateHistory ==
    /\ UNCHANGED orchVars
    /\ \E r1, r2 \in Results :
          /\ \/ Len(consumed[1]) < MaxPairUpdates
             \/ /\ Len(consumed[1]) < MaxPairRing
                /\ Constant(1, r1) /\ Constant(2, r2) /\ r1 # r2
          /\ strategy' = <<update_history(strategy[1], r1), update_history(strategy[2], r2)>>
          /\ consumed' = <<Append(consumed[1], r1), Append(consumed[2], r2)>>
          /\ call' = [op |-> "update_history", arg |-> <<r1, r2>>, ret |-> None]

PairAnalyze ==
    /\ UNCHANGED orchVars
    /\ UNCHANGED <<strategy, consumed>>
    /\ \E g1, g2 \in GameStates :
          call' = [op |-> "analyze", arg |-> <<g1, g2>>,
                   ret |-> <<analyze(strategy[1], g1), analyze(strategy[2], g2)>>]

NextPair == PairUpdateHistory \/ PairAnalyze

SpecPair == InitPair /\ [][NextPair]_vars

\* ======================================================= the round loops
DEFAULT_BASE_BET == 1
balance_check_interval == 5
PreOutcomeSeconds == 2

DEFAULT_STRATEGY == "Martingale"
DEFAULT_PREFERRED_SIDE == "auto"

Workers == 1..MaxWorkers
Sides == {"dragon", "tiger"}
Outcomes == {"dragon", "tiger", "tie", None}    \* GameController.get_bet_outcome
Balances == {NoBalance, 1}                      \* GameController.get_player_balance

\* wait_time_between_bets is read with getfloat (main.py line 49, web_app.py
\* line 157); it is held in half seconds, so that 1 is a wait of 0.5 s
Second == 2
WaitTimes == 0..(Second * MaxWait)

\* int(wait_time) of the wait loops: truncation to whole seconds
int(wait_time) == wait_time \div Second

\* main.py lines 238-239 and 429: the desktop start writes the setting from a
\* spin box of whole seconds, 1 at least
wait_time_spinbox == { Second * n : n \in 1..MaxWait }

\* the [BETTING] settings a session reads
Configs ==
    [ strategy : StrategyNames,
      preferred_side : {DEFAULT_PREFERRED_SIDE},
      base_amount : {DEFAULT_BASE_BET},
      wait_time : WaitTimes,
      max_losses : MaxLossesSettings ]

\* the settings of a session with the default strategy and side, a wait of
\* one second and a limit of two losses
AppConfigs ==
    { c \in Configs : /\ c.strategy = DEFAULT_STRATEGY
                      /\ c.preferred_side = DEFAULT_PREFERRED_SIDE
                      /\ c.wait_time = Second
                      /\ c.max_losses = 2 }

\* locals of one loop iteration, as they are at the top of the loop
FreshRound ==
    [ bet_decision |-> None, current_bet_amount |-> 0, ticks |-> 0,
      state_failed |-> FALSE, placed |-> FALSE, bet_successful |-> FALSE,
      updated |-> FALSE, skipped |-> FALSE,
      actual_result |-> "n/a", fed |-> None, at_start |-> NoStrategy ]

\* a worker that does not exist yet
Unborn ==
    [ pc |-> "unborn", cfg |-> NoConfig, strategy |-> NoStrategy, is_running |-> FALSE,
      loop_count |-> 0, current_balance |-> NoBalance, gc |-> "none",
      rnd |-> FreshRound, exit_reason |-> None, stop_sent |-> FALSE, closes |-> 0,
      observed |-> FALSE,    \* a check point of the worker has read the flag as set
      final_action |-> None ]   \* current_action of the status the finally block publishes

Alive(t) == wk[t].pc \notin {"unborn", "created", "done"}

\* mutant: a result that could not be read is handed over as a tie (a no-op)
Classify_UnknownIsTie(actual_result, bet_decision) ==
    IF actual_result = None THEN "tie"
    ELSE IF actual_result = "tie" THEN "tie"
    ELSE IF actual_result = bet_decision THEN "win"
    ELSE "loss"

\* the outcome handed to update_history for a raw result and the side bet
\* (main.py 129-143, web_app.py 309-323)
Classify(actual_result, bet_decision) ==
    IF actual_result = None THEN "loss"
    ELSE IF actual_result = "tie" THEN "tie"
    ELSE IF actual_result = bet_decision THEN "win"
    ELSE "loss"

\* mutant: the comparison of the guard is turned around
ExceedsBalance_Inverted(amount, balance) == balance # NoBalance /\ amount < balance

\* isinstance(current_balance, float) and current_bet_amount > current_balance
ExceedsBalance(amount, balance) == balance # NoBalance /\ amount > balance

\* the worker's record at the top of an iteration that goes on
BeginRound(w) == [w EXCEPT !.rnd = [FreshRound EXCEPT !.at_start = w.strategy]]

\* `if bet_decision:` on what analyze returned, then get_bet_amount and the
\* bankroll guard, in record w
Decide(w, bet_decision) ==
    LET amount == get_bet_amount(w.strategy, w.cfg.base_amount)
        w1 == [w EXCEPT !.strategy = get_bet_amount_effect(@),
                        !.rnd.bet_decision = bet_decision,
                        !.rnd.current_bet_amount = amount]
    IN  IF bet_decision \in {None, ""} THEN [w EXCEPT !.pc = "no_bet"]
        ELSE IF ExceedsBalance(amount, w.current_balance)
           THEN [w1 EXCEPT !.rnd.skipped = TRUE, !.pc = "low_wait"]
           ELSE [w1 EXCEPT !.pc = "place_bet"]

\* `if game_state:` failed: the round only logs and publishes
StateFailed(w) == [w EXCEPT !.rnd.state_failed = TRUE]

\* the result of place_bet: placements fail once the environment's budget of
\* accepted bets is used up
PlaceBetResults == IF budget.bets > 0 THEN BOOLEAN ELSE {FALSE}

\* the budget after place_bet has returned bet_successful
Placed(bet_successful) ==
    IF bet_successful THEN [budget EXCEPT !.bets = @ - 1] ELSE budget

\* mutant: the classified outcome is fed to the strategy twice
Settle_FeedsTwice(w, actual_result) ==
    LET fed == Classify(actual_result, w.rnd.bet_decision)
    IN  [w EXCEPT !.strategy = update_history(update_history(@, fed), fed),
                  !.rnd.actual_result = actual_result,
                  !.rnd.fed = fed,
                  !.rnd.updated = TRUE]

\* update_history with the classified outcome, in record w
Settle(w, actual_result) ==
    LET fed == Classify(actual_result, w.rnd.bet_decision)
    IN  [w EXCEPT !.strategy = update_history(@, fed),
                  !.rnd.actual_result = actual_result,
                  !.rnd.fed = fed,
                  !.rnd.updated = TRUE]

\* mutant: the orchestrator clears the strategy's streaks when it leaves the loop
Leave_ClearsStreaks(w, reason) ==
    [w EXCEPT !.pc = "finally", !.exit_reason = reason, !.rnd = FreshRound,
              !.loop_count = 0, !.current_balance = NoBalance,
              !.observed = @ \/ reason = "stop",
              !.strategy = IF @ = NoStrategy THEN @
                           ELSE [@ EXCEPT !.consecutive_losses = 0, !.consecutive_wins = 0]]

\* leaving the loop for the finally block: the locals of the loop are dead
Leave(w, reason) ==
    [w EXCEPT !.pc = "finally", !.exit_reason = reason, !.rnd = FreshRound,
              !.loop_count = 0, !.current_balance = NoBalance,
              !.observed = @ \/ reason = "stop"]

\* a worker whose run has returned: of its record only the way it ended and
\* what it did to its controller are kept
Done(w) ==
    [Unborn EXCEPT !.pc = "done", !.exit_reason = w.exit_reason,
                   !.gc = w.gc, !.closes = w.closes, !.final_action = w.final_action]

\* ------------------------------------------------------------- main.py
\* DragonTigerUI.__init__ / load_config with a valid config.ini
InitUI ==
    [ bot_thread |-> NoWorker, bot_worker |-> NoWorker,
      start_enabled |-> TRUE, stop_enabled |-> FALSE,
      driver |-> FALSE,      \* game_controller.driver is set
      queue |-> <<>> ]       \* signals of the workers not yet delivered to the UI

\* DragonTigerUI.set_controls_enabled
set_controls_enabled(u, enabled) ==
    [u EXCEPT !.start_enabled = enabled, !.stop_enabled = ~enabled]

\* the id of the next worker object
NextWorker == 1 + Cardinality({t \in Workers : wk[t].pc # "unborn"})

\* DragonTigerUI.start_bot (a click on start_btn)
start_bot ==
    /\ impl = "main" /\ ui.start_enabled /\ budget.starts > 0
    /\ IF ui.bot_thread # NoWorker
          THEN UNCHANGED <<ui, wk, budget>>
          ELSE LET t == NextWorker
               IN  /\ budget' = [budget EXCEPT !.starts = @ - 1]
                   /\ wk' = [wk EXCEPT ![t] =
                               [Unborn EXCEPT !.pc = "thread_started", !.cfg = config,
                                  !.strategy = NewStrategy(config.strategy, config.preferred_side)]]
                   /\ ui' = [set_controls_enabled(ui, FALSE) EXCEPT
                               !.bot_thread = t, !.bot_worker = t]
    /\ UNCHANGED <<strategy, call, consumed, impl, config, bot_state, reqs>>

\* DragonTigerUI.stop_bot (a click on stop_btn) and BotWorker.stop
stop_bot ==
    /\ impl = "main" /\ ui.stop_enabled
    /\ IF ui.bot_worker # NoWorker
          THEN wk' = [wk EXCEPT ![ui.bot_worker].is_running = FALSE,
                                ![ui.bot_worker].stop_sent = TRUE]
          ELSE wk' = wk
    /\ UNCHANGED <<strategy, call, consumed, impl, config, budget, ui, bot_state, reqs>>

\* the UI thread delivers the oldest queued signal:
\* DragonTigerUI.handle_bot_error or DragonTigerUI.on_bot_finished
deliver_signal ==
    /\ impl = "main" /\ ui.queue # <<>>
    /\ LET u == set_controls_enabled([ui EXCEPT !.queue = Tail(@)], TRUE)
       IN  IF Head(ui.queue) = "error"
              THEN ui' = u
              ELSE ui' = [u EXCEPT !.bot_worker = NoWorker, !.bot_thread = NoWorker]
    /\ UNCHANGED <<strategy, call, consumed, impl, config, budget, wk, bot_state, reqs>>

MFrame == UNCHANGED <<strategy, call, consumed, impl, config, budget, bot_state, reqs>>

\* BotWorker.run, lines 36-56: the flag is raised and the settings are read
M_run(t) ==
    /\ impl = "main" /\ wk[t].pc = "thread_started"
    /\ wk' = [wk EXCEPT ![t].is_running = TRUE, ![t].pc = "start_browser"]
    /\ UNCHANGED ui /\ MFrame

\* lines 58-60: game_controller.start_browser returns or raises
M_start_browser(t) ==
    /\ impl = "main" /\ wk[t].pc = "start_browser"
    /\ \E ok \in BOOLEAN :
          IF ok THEN /\ wk' = [wk EXCEPT ![t].pc = "load_game"]
                     /\ ui' = [ui EXCEPT !.driver = TRUE]
                ELSE /\ wk' = [wk EXCEPT ![t].pc = "except"]
                     /\ ui' = ui
    /\ MFrame

\* lines 61-63: game_controller.load_game returns or raises
M_load_game(t) ==
    /\ impl = "main" /\ wk[t].pc = "load_game"
    /\ \E ok \in BOOLEAN :
          wk' = [wk EXCEPT ![t].pc = IF ok THEN "initial_balance" ELSE "except"]
    /\ UNCHANGED ui /\ MFrame

\* lines 65-71: the initial balance read
M_initial_balance(t) ==
    /\ impl = "main" /\ wk[t].pc = "initial_balance"
    /\ \E b \in Balances :
          wk' = [wk EXCEPT ![t].current_balance = b, ![t].pc = "loop_head"]
    /\ UNCHANGED ui /\ MFrame

\* lines 73-81: the while test, the stop-loss test and the balance schedule;
\* loop_count is only used modulo balance_check_interval and is kept so
M_loop_head(t) ==
    /\ impl = "main" /\ wk[t].pc = "loop_head"
    /\ LET w == wk[t]
           n == (w.loop_count + 1) % balance_check_interval
           w1 == [BeginRound(w) EXCEPT !.loop_count = n]
       IN  wk' = [wk EXCEPT ![t] =
             IF ~w.is_running THEN Leave(w, "stop")
             ELSE IF ~should_continue(w.strategy, w.cfg.max_losses)
                THEN Leave(w1, "stop_loss")
             ELSE IF n = 0 \/ w.current_balance = NoBalance
                THEN [w1 EXCEPT !.pc = "get_player_balance"]
             ELSE [w1 EXCEPT !.pc = "get_game_state"]]
    /\ UNCHANGED ui /\ MFrame

\* lines 82-83: the scheduled balance read
M_get_player_balance(t) ==
    /\ impl = "main" /\ wk[t].pc = "get_player_balance"
    /\ \E b \in Balances :
          wk' = [wk EXCEPT ![t].current_balance = b, ![t].pc = "get_game_state"]
    /\ UNCHANGED ui /\ MFrame

\* the wait loops of lines 108-112 and 164-168 when entered: nothing to wait
\* for when int(wait_time) is 0
M_enter_wait(w, pc) ==
    IF int(w.cfg.wait_time) = 0 THEN [w EXCEPT !.pc = "loop_head"]
    ELSE [w EXCEPT !.pc = pc, !.rnd.ticks = int(w.cfg.wait_time)]

\* mutant: a round without a game state is fed to the strategy as a loss
M_round_FailureIsLoss(w, game_state, bet_decision) ==
    LET d == Decide(w, bet_decision)
    IN  IF ~w.is_running THEN Leave(w, "stop")
        ELSE IF game_state = NoGameState
           THEN M_enter_wait([StateFailed(w) EXCEPT !.strategy = update_history(@, "loss")],
                             "wait")
        ELSE IF d.pc = "no_bet" THEN M_enter_wait(d, "wait")
        ELSE IF d.pc = "low_wait" THEN M_enter_wait(d, "low_wait")
        ELSE d

\* lines 86-112 and 157-164: the round from the moment get_game_state has
\* returned game_state, with bet_decision what analyze returns, up to the
\* next call to the controller or the next second of a wait
M_round(w, game_state, bet_decision) ==
    LET d == Decide(w, bet_decision)
    IN  IF ~w.is_running THEN Leave(w, "stop")
        ELSE IF game_state = NoGameState THEN M_enter_wait(StateFailed(w), "wait")
        ELSE IF d.pc = "no_bet" THEN M_enter_wait(d, "wait")
        ELSE IF d.pc = "low_wait" THEN M_enter_wait(d, "low_wait")
        ELSE d

\* lines 84-112 and 157-164: get_game_state returns; analyze, get_bet_amount
\* and the bankroll guard follow without another call to the controller
M_get_game_state(t) ==
    /\ impl = "main" /\ wk[t].pc = "get_game_state"
    /\ \E game_state \in {NoGameState, [history |-> <<"dragon">>]} :
          wk' = [wk EXCEPT ![t] =
                   M_round(@, game_state, analyze(@.strategy, game_state))]
    /\ UNCHANGED ui /\ MFrame

\* lines 108-112: one second of the low-balance wait, then `continue`
M_low_wait_tick(t) ==
    /\ impl = "main" /\ wk[t].pc = "low_wait"
    /\ LET w == wk[t]
       IN  wk' = [wk EXCEPT ![t] =
             IF ~w.is_running
                THEN [w EXCEPT !.pc = "loop_head", !.rnd.ticks = 0, !.observed = TRUE]
             ELSE IF w.rnd.ticks = 1
                THEN [w EXCEPT !.pc = "loop_head", !.rnd.ticks = 0]
                ELSE [w EXCEPT !.rnd.ticks = @ - 1]]
    /\ UNCHANGED ui /\ MFrame

\* lines 113-121 and 154-164: place_bet returns
M_place_bet(t) ==
    /\ impl = "main" /\ wk[t].pc = "place_bet"
    /\ \E bet_successful \in PlaceBetResults :
          LET w == [wk[t] EXCEPT !.rnd.placed = TRUE, !.rnd.bet_successful = bet_successful]
          IN  /\ budget' = Placed(bet_successful)
              /\ wk' = [wk EXCEPT ![t] =
                    IF ~w.is_running THEN Leave(w, "stop")
                    ELSE IF bet_successful THEN [w EXCEPT !.pc = "get_bet_outcome"]
                    ELSE M_enter_wait(w, "wait")]
    /\ UNCHANGED <<strategy, call, consumed, impl, config, ui, bot_state, reqs>>

\* lines 128-164: get_bet_outcome returns, the outcome is classified and fed
\* to the strategy; the wait is entered only if the flag is still up
M_get_bet_outcome(t) ==
    /\ impl = "main" /\ wk[t].pc = "get_bet_outcome"
    /\ \E actual_result \in Outcomes :
          LET w == Settle(wk[t], actual_result)
          IN  wk' = [wk EXCEPT ![t] =
                IF ~w.is_running THEN [w EXCEPT !.pc = "loop_head", !.observed = TRUE]
                ELSE M_enter_wait(w, "wait")]
    /\ UNCHANGED ui /\ MFrame

\* lines 165-168: one second of the inter-round wait
M_wait_tick(t) ==
    /\ impl = "main" /\ wk[t].pc = "wait"
    /\ LET w == wk[t]
       IN  wk' = [wk EXCEPT ![t] =
             IF ~w.is_running
                THEN [w EXCEPT !.pc = "loop_head", !.rnd.ticks = 0, !.observed = TRUE]
             ELSE IF w.rnd.ticks = 1
                THEN [w EXCEPT !.pc = "loop_head", !.rnd.ticks = 0]
                ELSE [w EXCEPT !.rnd.ticks = @ - 1]]
    /\ UNCHANGED ui /\ MFrame

\* lines 172-173: the except clause emits error_signal
M_except(t) ==
    /\ impl = "main" /\ wk[t].pc = "except"
    /\ wk' = [wk EXCEPT ![t] = Leave(@, "error")]
    /\ ui' = [ui EXCEPT !.queue = Append(@, "error")]
    /\ MFrame

\* lines 176-178: the text of the last status
current_action_on_stop(w) ==
    IF w.is_running THEN "Bot stopped due to error." ELSE "Bot stopped."

\* lines 174-184: the finally block closes the controller, publishes the last
\* status, lowers the flag and emits finished_signal
M_finally(t) ==
    /\ impl = "main" /\ wk[t].pc = "finally"
    /\ wk' = [wk EXCEPT ![t] = Done([@ EXCEPT !.closes = @ + 1, !.gc = "closed",
                                       !.final_action = current_action_on_stop(wk[t])])]
    /\ ui' = [ui EXCEPT !.driver = FALSE, !.queue = Append(@, "finished")]
    /\ MFrame

BotWorker_run(t) ==
    \/ M_run(t) \/ M_start_browser(t) \/ M_load_game(t) \/ M_initial_balance(t)
    \/ M_loop_head(t) \/ M_get_player_balance(t) \/ M_get_game_state(t)
    \/ M_low_wait_tick(t) \/ M_place_bet(t) \/ M_get_bet_outcome(t)
    \/ M_wait_tick(t) \/ M_except(t) \/ M_finally(t)

InitMain ==
    /\ impl = "main"
    /\ wk = [t \in Workers |-> Unborn]
    /\ ui = InitUI
    /\ bot_state = None /\ reqs = <<>>

NextMain ==
    \/ start_bot
    \/ stop_bot
    \/ deliver_signal
    \/ \E t \in Workers : BotWorker_run(t)

\* ----------------------------------------------------------- web_app.py
\* bot_state as the module creates it (lines 38-45)
InitBotState == [is_running |-> FALSE, thread |-> NoWorker, stop_event |-> FALSE]

RequestIds == 1..MaxRequests
NoRequest == [kind |-> "none", pc |-> "none", t |-> NoWorker]

\* the id of the next request
NextRequest == 1 + Cardinality({r \in RequestIds : reqs[r].kind # "none"})

\* the handler returns: the request keeps only the response's status code
Respond(r, code) == [reqs EXCEPT ![r].pc = code, ![r].t = NoWorker]

\* threading.Thread.is_alive
is_alive(t) == t # NoWorker /\ Alive(t)

WFrame == UNCHANGED <<strategy, call, consumed, impl, config, ui>>

\* a POST /start_bot arrives
post_start_bot ==
    /\ impl = "web" /\ budget.starts > 0
    /\ budget' = [budget EXCEPT !.starts = @ - 1]
    /\ reqs' = [reqs EXCEPT ![NextRequest] = [kind |-> "start", pc |-> "s_check", t |-> NoWorker]]
    /\ UNCHANGED <<wk, bot_state>> /\ WFrame

\* a POST /stop_bot arrives
post_stop_bot ==
    /\ impl = "web" /\ budget.stops > 0
    /\ budget' = [budget EXCEPT !.stops = @ - 1]
    /\ reqs' = [reqs EXCEPT ![NextRequest] = [kind |-> "stop", pc |-> "p_check", t |-> NoWorker]]
    /\ UNCHANGED <<wk, bot_state>> /\ WFrame

\* start_bot_route, lines 400-416: the already-running test
S_check(r) ==
    /\ impl = "web" /\ reqs[r].pc = "s_check"
    /\ reqs' = IF bot_state.is_running THEN Respond(r, "400")
               ELSE [reqs EXCEPT ![r].pc = "s_set"]
    /\ UNCHANGED <<wk, bot_state, budget>> /\ WFrame

\* lines 418-421: is_running is raised
S_set(r) ==
    /\ impl = "web" /\ reqs[r].pc = "s_set"
    /\ bot_state' = [bot_state EXCEPT !.is_running = TRUE]
    /\ reqs' = [reqs EXCEPT ![r].pc = "s_clear"]
    /\ UNCHANGED <<wk, budget>> /\ WFrame

\* line 422: stop_event.clear()
S_clear(r) ==
    /\ impl = "web" /\ reqs[r].pc = "s_clear"
    /\ bot_state' = [bot_state EXCEPT !.stop_event = FALSE]
    /\ reqs' = [reqs EXCEPT ![r].pc = "s_thread"]
    /\ UNCHANGED <<wk, budget>> /\ WFrame

\* lines 426-428: a Thread object is stored in bot_state["thread"]
S_thread(r) ==
    /\ impl = "web" /\ reqs[r].pc = "s_thread"
    /\ LET t == NextWorker
       IN  /\ wk' = [wk EXCEPT ![t] = [Unborn EXCEPT !.pc = "created"]]
           /\ bot_state' = [bot_state EXCEPT !.thread = t]
    /\ reqs' = [reqs EXCEPT ![r].pc = "s_start"]
    /\ UNCHANGED budget /\ WFrame

\* lines 429-433: bot_state["thread"] is read again and started; a None there
\* or a thread that was started already raises in the handler
S_start(r) ==
    /\ impl = "web" /\ reqs[r].pc = "s_start"
    /\ LET t == bot_state.thread
       IN  IF t # NoWorker /\ wk[t].pc = "created"
              THEN /\ wk' = [wk EXCEPT ![t].pc = "thread_started"]
                   /\ reqs' = Respond(r, "200")
              ELSE /\ wk' = wk
                   /\ reqs' = Respond(r, "500")
    /\ UNCHANGED <<bot_state, budget>> /\ WFrame

start_bot_route(r) ==
    S_check(r) \/ S_set(r) \/ S_clear(r) \/ S_thread(r) \/ S_start(r)

\* stop_bot_route, line 440: the is_running test
P_check(r) ==
    /\ impl = "web" /\ reqs[r].pc = "p_check"
    /\ reqs' = [reqs EXCEPT ![r].pc = IF bot_state.is_running THEN "p_alive" ELSE "p_zombie"]
    /\ UNCHANGED <<wk, bot_state, budget>> /\ WFrame

\* line 443: not marked running; is a thread alive all the same?
P_zombie(r) ==
    /\ impl = "web" /\ reqs[r].pc = "p_zombie"
    /\ reqs' = IF is_alive(bot_state.thread)
                  THEN [reqs EXCEPT ![r].pc = "p_set_warn", ![r].t = bot_state.thread]
                  ELSE Respond(r, "400")
    /\ UNCHANGED <<wk, bot_state, budget>> /\ WFrame

\* the stop signal reaches worker t if it is still running
Signal(t) ==
    IF is_alive(t) THEN [wk EXCEPT ![t].stop_sent = TRUE] ELSE wk

\* lines 444-447: stop_event.set() for the thread found alive
P_set_warn(r) ==
    /\ impl = "web" /\ reqs[r].pc = "p_set_warn"
    /\ bot_state' = [bot_state EXCEPT !.stop_event = TRUE]
    /\ wk' = Signal(reqs[r].t)
    /\ reqs' = Respond(r, "202")
    /\ UNCHANGED budget /\ WFrame

\* line 450: marked running; is the thread there and alive?
P_alive(r) ==
    /\ impl = "web" /\ reqs[r].pc = "p_alive"
    /\ reqs' = IF is_alive(bot_state.thread)
                  THEN [reqs EXCEPT ![r].pc = "p_set", ![r].t = bot_state.thread]
                  ELSE [reqs EXCEPT ![r].pc = "p_reset"]
    /\ UNCHANGED <<wk, bot_state, budget>> /\ WFrame

\* lines 451-456: the state is reset
P_reset(r) ==
    /\ impl = "web" /\ reqs[r].pc = "p_reset"
    /\ bot_state' = [bot_state EXCEPT !.is_running = FALSE, !.thread = NoWorker]
    /\ reqs' = Respond(r, "400")
    /\ UNCHANGED <<wk, budget>> /\ WFrame

\* lines 458-466: stop_event.set()
P_set(r) ==
    /\ impl = "web" /\ reqs[r].pc = "p_set"
    /\ bot_state' = [bot_state EXCEPT !.stop_event = TRUE]
    /\ wk' = Signal(reqs[r].t)
    /\ reqs' = Respond(r, "200")
    /\ UNCHANGED budget /\ WFrame

stop_bot_route(r) ==
    P_check(r) \/ P_zombie(r) \/ P_set_warn(r) \/ P_alive(r) \/ P_reset(r) \/ P_set(r)

TFrame == UNCHANGED <<strategy, call, consumed, impl, config, budget, ui, reqs>>

\* preferred_bet_from_ui against the configured side (lines 162-170)
final_preferred_bet_side(preferred_bet_from_ui, configured) ==
    IF preferred_bet_from_ui \in {"dragon", "tiger"} THEN preferred_bet_from_ui
    ELSE IF configured \in ValidSides THEN configured ELSE "auto"

\* bot_logic_thread_func, lines 129-187: stop_event.clear(), then config.ini is
\* read and the strategy is built; a missing file or game_url returns
W_begin(t) ==
    /\ impl = "web" /\ wk[t].pc = "thread_started"
    /\ bot_state' = [bot_state EXCEPT !.stop_event = FALSE]
    /\ \E file \in {"ok", "missing", "no_game_url"} :
          LET w == wk[t]
              side == final_preferred_bet_side("auto", config.preferred_side)
          IN  wk' = [wk EXCEPT ![t] =
                CASE file = "missing" -> Leave(w, "no_config")
                  [] file = "no_game_url" -> Leave([w EXCEPT !.gc = "created"], "no_game_url")
                  [] OTHER -> [w EXCEPT !.gc = "created", !.cfg = config,
                                        !.strategy = NewStrategy(config.strategy, side),
                                        !.pc = "start_browser"]]
    /\ TFrame

\* lines 190-193: start_browser returns or raises
W_start_browser(t) ==
    /\ impl = "web" /\ wk[t].pc = "start_browser"
    /\ \E ok \in BOOLEAN :
          wk' = [wk EXCEPT ![t] = IF ok THEN [@ EXCEPT !.gc = "open", !.pc = "load_game"]
                                  ELSE [@ EXCEPT !.pc = "except"]]
    /\ UNCHANGED bot_state /\ TFrame

\* lines 195-218: the optional login, then load_game returns or raises
W_load_game(t) ==
    /\ impl = "web" /\ wk[t].pc = "load_game"
    /\ \E res \in {"ok", "login_failed", "raise"} :
          wk' = [wk EXCEPT ![t] =
                CASE res = "ok" -> [@ EXCEPT !.pc = "initial_balance"]
                  [] res = "login_failed" -> Leave(@, "login")
                  [] OTHER -> [@ EXCEPT !.pc = "except"]]
    /\ UNCHANGED bot_state /\ TFrame

\* lines 220-232: the initial balance read
W_initial_balance(t) ==
    /\ impl = "web" /\ wk[t].pc = "initial_balance"
    /\ \E b \in Balances :
          wk' = [wk EXCEPT ![t].current_balance = b, ![t].pc = "loop_head"]
    /\ UNCHANGED bot_state /\ TFrame

\* lines 255-259: the stop-loss test that follows the periodic update
W_check_continue(w) ==
    IF ~should_continue(w.strategy, w.cfg.max_losses) THEN Leave(w, "stop_loss")
    ELSE [w EXCEPT !.pc = "get_game_state"]

\* lines 234-259: the while test; the periodic update is due on the first
\* iteration (last_periodic_update_time = 0) and whenever 10 s have passed.
\* loop_count only records that the first iteration is over.
W_loop_head(t) ==
    /\ impl = "web" /\ wk[t].pc = "loop_head"
    /\ \E due \in BOOLEAN :
          LET w == wk[t]
              w1 == [BeginRound(w) EXCEPT !.loop_count = 1]
          IN  /\ (w.loop_count = 0 => due)
              /\ wk' = [wk EXCEPT ![t] =
                    IF bot_state.stop_event THEN Leave(w, "stop")
                    ELSE IF due THEN [w1 EXCEPT !.pc = "periodic_screenshot"]
                    ELSE W_check_continue(w1)]
    /\ UNCHANGED bot_state /\ TFrame

\* lines 242-246: the periodic screenshot returns
W_periodic_screenshot(t) ==
    /\ impl = "web" /\ wk[t].pc = "periodic_screenshot"
    /\ wk' = [wk EXCEPT ![t] =
          IF bot_state.stop_event THEN Leave(@, "stop")
          ELSE [@ EXCEPT !.pc = "periodic_balance"]]
    /\ UNCHANGED bot_state /\ TFrame

\* lines 247-259: the periodic balance read returns
W_periodic_balance(t) ==
    /\ impl = "web" /\ wk[t].pc = "periodic_balance"
    /\ \E b \in Balances :
          LET w == [wk[t] EXCEPT !.current_balance = b]
          IN  wk' = [wk EXCEPT ![t] =
                IF bot_state.stop_event THEN Leave(w, "stop")
                ELSE W_check_continue(w)]
    /\ UNCHANGED bot_state /\ TFrame

\* lines 349-359: the inter-round wait when entered
W_enter_wait(w) ==
    IF int(w.cfg.wait_time) = 0 THEN [w EXCEPT !.pc = "loop_head"]
    ELSE [w EXCEPT !.pc = "wait", !.rnd.ticks = int(w.cfg.wait_time)]

\* lines 266-289 and 342-349: the round from the moment get_game_state has
\* returned game_state, with bet_decision what analyze returns, up to the
\* next call to the controller or the next second of a wait
W_round(w, game_state, bet_decision) ==
    LET d == Decide(w, bet_decision)
    IN  IF bot_state.stop_event THEN Leave(w, "stop")
        ELSE IF game_state = NoGameState THEN W_enter_wait(StateFailed(w))
        ELSE IF d.pc = "no_bet" THEN W_enter_wait(d)
        ELSE IF d.pc = "low_wait" THEN [d EXCEPT !.rnd.ticks = int(w.cfg.wait_time)]
        ELSE d

\* lines 263-289 and 342-349: get_game_state returns; analyze, get_bet_amount
\* and the bankroll guard follow without another call to the controller; on
\* a skip time.sleep(wait_time) is entered, with no test of the stop event
W_get_game_state(t) ==
    /\ impl = "web" /\ wk[t].pc = "get_game_state"
    /\ \E game_state \in {NoGameState, [history |-> <<"dragon">>]} :
          wk' = [wk EXCEPT ![t] =
                   W_round(@, game_state, analyze(@.strategy, game_state))]
    /\ UNCHANGED bot_state /\ TFrame

\* lines 283-285: time.sleep(wait_time), one second of it at a step; the stop
\* event is tested when the whole sleep has returned, then `continue`
W_low_sleep(t) ==
    /\ impl = "web" /\ wk[t].pc = "low_wait"
    /\ wk' = [wk EXCEPT ![t] =
          IF @.rnd.ticks > 1 THEN [@ EXCEPT !.rnd.ticks = @ - 1]
          ELSE IF bot_state.stop_event THEN Leave(@, "stop")
          ELSE [@ EXCEPT !.pc = "loop_head", !.rnd.ticks = 0]]
    /\ UNCHANGED bot_state /\ TFrame

\* mutant: a placement that failed is fed to the strategy as a loss
W_place_bet_FailureIsLoss(t) ==
    /\ impl = "web" /\ wk[t].pc = "place_bet"
    /\ \E bet_successful \in PlaceBetResults :
          LET w == [wk[t] EXCEPT !.rnd.placed = TRUE, !.rnd.bet_successful = bet_successful]
          IN  /\ budget' = Placed(bet_successful)
              /\ wk' = [wk EXCEPT ![t] =
                    IF bot_state.stop_event THEN Leave(w, "stop")
                    ELSE IF bet_successful
                       THEN [w EXCEPT !.pc = "pre_outcome", !.rnd.ticks = PreOutcomeSeconds]
                    ELSE W_enter_wait([w EXCEPT !.strategy = update_history(@, "loss")])]
    /\ UNCHANGED <<strategy, call, consumed, impl, config, ui, reqs, bot_state>>

\* lines 291-306 and 334-349: place_bet and its screenshot return
W_place_bet(t) ==
    /\ impl = "web" /\ wk[t].pc = "place_bet"
    /\ \E bet_successful \in PlaceBetResults :
          LET w == [wk[t] EXCEPT !.rnd.placed = TRUE, !.rnd.bet_successful = bet_successful]
          IN  /\ budget' = Placed(bet_successful)
              /\ wk' = [wk EXCEPT ![t] =
                    IF bot_state.stop_event THEN Leave(w, "stop")
                    ELSE IF bet_successful
                       THEN [w EXCEPT !.pc = "pre_outcome", !.rnd.ticks = PreOutcomeSeconds]
                    ELSE W_enter_wait(w)]
    /\ UNCHANGED <<strategy, call, consumed, impl, config, ui, reqs, bot_state>>

\* lines 303-305: one second of the delay before the outcome is read; a stop
\* seen at line 304 breaks out of the for loop
W_pre_outcome_tick(t) ==
    /\ impl = "web" /\ wk[t].pc = "pre_outcome"
    /\ wk' = [wk EXCEPT ![t] =
          IF bot_state.stop_event
             THEN [@ EXCEPT !.pc = "pre_outcome_exit", !.rnd.ticks = 0, !.observed = TRUE]
          ELSE IF @.rnd.ticks = 1 THEN [@ EXCEPT !.pc = "get_bet_outcome", !.rnd.ticks = 0]
          ELSE [@ EXCEPT !.rnd.ticks = @ - 1]]
    /\ UNCHANGED bot_state /\ TFrame

\* lines 308-349: get_bet_outcome returns; unless a stop is seen the outcome
\* is classified and fed to the strategy
W_get_bet_outcome(t) ==
    /\ impl = "web" /\ wk[t].pc = "get_bet_outcome"
    /\ \E actual_result \in Outcomes :
          LET w == wk[t]
          IN  wk' = [wk EXCEPT ![t] =
                IF bot_state.stop_event THEN Leave(w, "stop")
                ELSE W_enter_wait(Settle(w, actual_result))]
    /\ UNCHANGED bot_state /\ TFrame

\* lines 352-358: one second of the inter-round wait; a stop seen at line 353
\* breaks out of the for loop
W_wait_tick(t) ==
    /\ impl = "web" /\ wk[t].pc = "wait"
    /\ wk' = [wk EXCEPT ![t] =
          IF bot_state.stop_event
             THEN [@ EXCEPT !.pc = "wait_exit", !.rnd.ticks = 0, !.observed = TRUE]
          ELSE IF @.rnd.ticks = 1 THEN [@ EXCEPT !.pc = "loop_head", !.rnd.ticks = 0]
          ELSE [@ EXCEPT !.rnd.ticks = @ - 1]]
    /\ UNCHANGED bot_state /\ TFrame

\* lines 306 and 359: the stop event is read again after the for loop that a
\* stop has broken; the while loop is left if it is (still) set
W_recheck(t) ==
    /\ impl = "web" /\ wk[t].pc \in {"pre_outcome_exit", "wait_exit"}
    /\ wk' = [wk EXCEPT ![t] =
          IF bot_state.stop_event THEN Leave(@, "stop")
          ELSE IF @.pc = "pre_outcome_exit" THEN [@ EXCEPT !.pc = "get_bet_outcome"]
          ELSE [@ EXCEPT !.pc = "loop_head"]]
    /\ UNCHANGED bot_state /\ TFrame

\* mutant: the except clause closes the controller as well
W_except_Closes(t) ==
    /\ impl = "web" /\ wk[t].pc = "except"
    /\ wk' = [wk EXCEPT ![t] = Leave([@ EXCEPT !.gc = "closed", !.closes = @ + 1], "error")]
    /\ UNCHANGED bot_state /\ TFrame

\* lines 361-368: the except clause
W_except(t) ==
    /\ impl = "web" /\ wk[t].pc = "except"
    /\ wk' = [wk EXCEPT ![t] = Leave(@, "error")]
    /\ UNCHANGED bot_state /\ TFrame

\* lines 369-384: the finally block closes the controller if there is one
W_close(t) ==
    /\ impl = "web" /\ wk[t].pc = "finally"
    /\ wk' = [wk EXCEPT ![t] =
          IF @.gc = "none" THEN [@ EXCEPT !.pc = "clear_running"]
          ELSE [@ EXCEPT !.pc = "clear_running", !.gc = "closed", !.closes = @ + 1]]
    /\ UNCHANGED bot_state /\ TFrame

\* line 385: bot_state["is_running"] = False
W_clear_running(t) ==
    /\ impl = "web" /\ wk[t].pc = "clear_running"
    /\ bot_state' = [bot_state EXCEPT !.is_running = FALSE]
    /\ wk' = [wk EXCEPT ![t].pc = "clear_thread"]
    /\ TFrame

\* lines 386-388: bot_state["thread"] = None, and the thread ends
W_clear_thread(t) ==
    /\ impl = "web" /\ wk[t].pc = "clear_thread"
    /\ bot_state' = [bot_state EXCEPT !.thread = NoWorker]
    /\ wk' = [wk EXCEPT ![t] = Done(@)]
    /\ TFrame

bot_logic_thread_func(t) ==
    \/ W_begin(t) \/ W_start_browser(t) \/ W_load_game(t) \/ W_initial_balance(t)
    \/ W_loop_head(t) \/ W_periodic_screenshot(t) \/ W_periodic_balance(t)
    \/ W_get_game_state(t) \/ W_low_sleep(t) \/ W_place_bet(t)
    \/ W_pre_outcome_tick(t) \/ W_get_bet_outcome(t) \/ W_wait_tick(t)
    \/ W_recheck(t)
    \/ W_except(t) \/ W_close(t) \/ W_clear_running(t) \/ W_clear_thread(t)

InitWeb ==
    /\ impl = "web"
    /\ wk = [t \in Workers |-> Unborn]
    /\ ui = None
    /\ bot_state = InitBotState
    /\ reqs = [r \in RequestIds |-> NoRequest]

NextWeb ==
    \/ post_start_bot
    \/ post_stop_bot
    \/ \E r \in RequestIds : start_bot_route(r)
    \/ \E r \in RequestIds : stop_bot_route(r)
    \/ \E t \in Workers : bot_logic_thread_func(t)

\* ------------------------------------- harness over the status dictionary
\* bot_state["status"] as the module creates it (web_app.py line 41)
InitStatus ==
    [ current_action |-> "Idle", last_result |-> "N/A", consecutive_losses |-> 0,
      current_bet_amount |-> 0, player_balance |-> "N/A" ]

\* the dictionary start_bot_route assigns to bot_state["status"] (line 420)
StartingStatus == [InitStatus EXCEPT !.current_action = "Starting..."]

\* the dictionaries bot_logic_thread_func hands to update_status
Publishes ==
    { [InitStatus EXCEPT !.current_action = "Initializing...",
                         !.current_bet_amount = DEFAULT_BASE_BET,
                         !.player_balance = "Fetching..."],
      [InitStatus EXCEPT !.current_action = "Bot stopped."] }
    \cup { [current_action |-> a] :
             a \in {"Getting game state...", "Analyzing game state..."} }
    \cup { [player_balance |-> b] : b \in {"1.00", "N/A"} }
    \cup { [current_action |-> "Placing bet", current_bet_amount |-> n] :
             n \in BaseAmounts }
    \cup { [current_action |-> "Outcome. Waiting...", last_result |-> r,
            consecutive_losses |-> k] :
             r \in {"tie", "Unknown"}, k \in 0..1 }

\* dict.update
DictUpdate(dict, other) ==
    [f \in DOMAIN dict \cup DOMAIN other |->
        IF f \in DOMAIN other THEN other[f] ELSE dict[f]]

\* update_status
update_status(state, new_status_partial) ==
    [state EXCEPT !.status = DictUpdate(@, new_status_partial)]

\* get_updates_route: the copy of the status that is returned
get_updates_route(state) == [is_running |-> state.is_running, status |-> state.status]

InitPublish ==
    /\ impl = "none" /\ config = None /\ budget = None
    /\ wk = <<>> /\ ui = None /\ reqs = <<>>
    /\ strategy = None /\ consumed = <<>> /\ call = NoCall
    /\ bot_state = [is_running |-> FALSE, thread |-> NoWorker, stop_event |-> FALSE,
                    status |-> InitStatus]

PublishFrame == UNCHANGED <<strategy, consumed, impl, config, budget, wk, ui, reqs>>

\* start_bot_route, lines 418-420
CallStartStatus ==
    /\ ~bot_state.is_running
    /\ bot_state' = [bot_state EXCEPT !.is_running = TRUE, !.status = StartingStatus]
    /\ call' = [op |-> "start_bot", arg |-> None, ret |-> None]
    /\ PublishFrame

\* a publish of the worker
CallUpdateStatus ==
    /\ bot_state.is_running
    /\ \E new_status_partial \in Publishes :
          /\ bot_state' = update_status(bot_state, new_status_partial)
          /\ call' = [op |-> "update_status", arg |-> new_status_partial, ret |-> None]
    /\ PublishFrame

\* GET /get_updates
CallGetUpdates ==
    /\ bot_state' = bot_state
    /\ call' = [op |-> "get_updates", arg |-> None, ret |-> get_updates_route(bot_state)]
    /\ PublishFrame

\* the JSON bodies of POST /update_manual_status explored; a negative count
\* is ignored by the handler
ManualData ==
    { [consecutive_losses |-> 7],
      [consecutive_losses |-> -1],
      [current_action |-> "Manual", current_bet_amount |-> 9] }

\* update_manual_status_route, lines 483-492: the fields present and valid in
\* data are assigned, whether a bot is running or not
update_manual_status_route(state, data) ==
    LET a == IF "current_action" \in DOMAIN data
                THEN [current_action |-> data.current_action] ELSE <<>>
        l == IF "consecutive_losses" \in DOMAIN data /\ data.consecutive_losses >= 0
                THEN [consecutive_losses |-> data.consecutive_losses] ELSE <<>>
        b == IF "current_bet_amount" \in DOMAIN data /\ data.current_bet_amount >= 0
                THEN [current_bet_amount |-> data.current_bet_amount] ELSE <<>>
    IN  [state EXCEPT !.status = DictUpdate(DictUpdate(DictUpdate(@, a), l), b)]

\* POST /update_manual_status
CallManualStatus ==
    /\ \E data \in ManualData :
          /\ bot_state' = update_manual_status_route(bot_state, data)
          /\ call' = [op |-> "update_manual_status", arg |-> data, ret |-> None]
    /\ PublishFrame

NextPublish ==
    CallStartStatus \/ CallUpdateStatus \/ CallGetUpdates \/ CallManualStatus

SpecPublish == InitPublish /\ [][NextPublish]_vars

\* ------------------------------------------------ harness over the log
MAX_LOGS == 200
MaxLogCalls == 203    \* add_log calls of the bot thread explored
MaxHandlerLogs == 2   \* add_log calls of the request handlers explored

\* the threads that call add_log: the bot thread, and a request handler
\* (start_bot_route, stop_bot_route, update_manual_status_route)
LogCallers == {"BotLogicThread", "handler"}

LogBudget(c) == IF c = "BotLogicThread" THEN MaxLogCalls ELSE MaxHandlerLogs

\* bot_state["logs"] as the module creates it (line 40); no add_log call is
\* in progress. A log entry is the number of the append that wrote it.
InitLog ==
    /\ impl = "none" /\ config = None /\ budget = None
    /\ ui = None /\ reqs = <<>>
    /\ strategy = None /\ consumed = <<>>
    /\ call = [op |-> "add_log", arg |-> 0, ret |-> None]
    /\ bot_state = [logs |-> <<>>]
    /\ wk = [c \in LogCallers |-> [pc |-> "idle", calls |-> 0]]

LogFrame == UNCHANGED <<strategy, consumed, impl, config, budget, ui, reqs>>

\* add_log, lines 60-62: the entry is built and appended
L_append(c) ==
    /\ wk[c].pc = "idle" /\ wk[c].calls < LogBudget(c)
    /\ call' = [call EXCEPT !.arg = @ + 1]
    /\ bot_state' = [bot_state EXCEPT !.logs = Append(@, call.arg + 1)]
    /\ wk' = [wk EXCEPT ![c].pc = "test"]
    /\ LogFrame

\* line 63: len(bot_state["logs"]) > MAX_LOGS; the call returns if it is not
L_test(c) ==
    /\ wk[c].pc = "test"
    /\ wk' = [wk EXCEPT ![c] =
          IF Len(bot_state.logs) > MAX_LOGS THEN [@ EXCEPT !.pc = "pop"]
          ELSE [@ EXCEPT !.pc = "idle", !.calls = @ + 1]]
    /\ UNCHANGED <<bot_state, call>> /\ LogFrame

\* line 64: bot_state["logs"].pop(0), and the call returns
L_pop(c) ==
    /\ wk[c].pc = "pop"
    /\ bot_state' = [bot_state EXCEPT !.logs = Tail(@)]
    /\ wk' = [wk EXCEPT ![c] = [@ EXCEPT !.pc = "idle", !.calls = @ + 1]]
    /\ UNCHANGED call /\ LogFrame

add_log(c) == L_append(c) \/ L_test(c) \/ L_pop(c)

NextLog == \E c \in LogCallers : add_log(c)

SpecLog == InitLog /\ [][NextLog]_vars

\* ------------------------------------------------------ specifications
NextApp == NextMain \/ NextWeb

\* one session: the settings are free, one start and one stop are requested
Init ==
    /\ strategy = None /\ call = NoCall /\ consumed = <<>>
    /\ config \in Configs
    /\ budget = [starts |-> 1, stops |-> 1, bets |-> MaxRounds]
    /\ \/ InitMain /\ config.wait_time \in wait_time_spinbox
       \/ InitWeb

Spec == Init /\ [][NextApp]_vars

\* several requests, one bet accepted: the settings are those of AppConfigs
AppBudgets ==
    { [starts |-> MaxWorkers, stops |-> MaxRequests - MaxWorkers, bets |-> 1],
      [starts |-> 1, stops |-> MaxRequests - 1, bets |-> 1] }

InitApp ==
    /\ strategy = None /\ call = NoCall /\ consumed = <<>>
    /\ config \in AppConfigs
    /\ budget \in AppBudgets
    /\ (InitMain \/ InitWeb)

SpecApp == InitApp /\ [][NextApp]_vars

\* every started worker and every accepted request keeps running, and every
\* call to the controller returns
Fairness ==
    /\ \A t \in Workers : WF_vars(BotWorker_run(t)) /\ WF_vars(bot_logic_thread_func(t))
    /\ \A r \in RequestIds : WF_vars(start_bot_route(r)) /\ WF_vars(stop_bot_route(r))
    /\ WF_vars(deliver_signal)

FairSpec == Spec /\ Fairness

\* ------------------------------------------------ claims on the strategies
Losses(n) == [i \in 1..n |-> "loss"]

C2_MartingaleStake ==
    (strategy.kind = "Martingale" /\ call.op = "get_bet_amount") =>
        /\ call.ret = call.arg * Pow2(Min(strategy.consecutive_losses, 8))
        /\ (strategy.consecutive_losses = 0 => call.ret = call.arg)
        /\ call.ret <= 256 * call.arg

C2_Witness ==
    /\ strategy.kind = "Martingale" /\ call.op = "get_bet_amount"
    /\ strategy.consecutive_losses = 9
    /\ call.ret = 256 * call.arg

\* C3 (as claimed): a fresh FibonacciStrategy fed 5 consecutive losses has
\* current_fib_index = 4 and get_bet_amount(base) = 5 * base.
C3_FibonacciFiveLosses ==
    (strategy.kind = "Fibonacci" /\ strategy.history = Losses(5)) =>
        /\ strategy.current_fib_index = 4
        /\ \A b \in BaseAmounts : get_bet_amount(strategy, b) = 5 * b

\* C4: the D'Alembert multiplier starts at 1, a Loss adds 1, a Win sets it to
\* max(1, multiplier - 1); it is always >= 1, the stake is never below base,
\* and L,L,L,W gives the multipliers 1,2,3,4,3.
C4_DAlembertState ==
    strategy.kind = "D'Alembert" =>
        /\ strategy.current_bet_unit_multiplier >= 1
        /\ \A b \in BaseAmounts : get_bet_amount(strategy, b) >= b
        /\ \A n \in 0..3 :
              strategy.history = Losses(n) => strategy.current_bet_unit_multiplier = n + 1
        /\ strategy.history = Losses(3) \o <<"win">> =>
              strategy.current_bet_unit_multiplier = 3

C4_DAlembertStep ==
    (strategy.kind = "D'Alembert" /\ call'.op = "update_history") =>
        /\ call'.arg = "loss" =>
              strategy'.current_bet_unit_multiplier = strategy.current_bet_unit_multiplier + 1
        /\ call'.arg = "win" =>
              strategy'.current_bet_unit_multiplier =
                 IF strategy.current_bet_unit_multiplier > 1
                    THEN strategy.current_bet_unit_multiplier - 1 ELSE 1

C4_DAlembert == [](C4_DAlembertState) /\ [][C4_DAlembertStep]_vars

C4_Witness ==
    /\ strategy.kind = "D'Alembert"
    /\ strategy.history = Losses(3) \o <<"win">>
    /\ strategy.current_bet_unit_multiplier = 3

\* C5: Paroli with wins_to_reset = 3: the stake is base * 2^consecutive_wins
\* while 0 < consecutive_wins < 3 (4 * base after W,W), base for the bet that
\* follows the 3rd consecutive win, and base right after any Loss.
C5_Paroli ==
    (strategy.kind = "Paroli" /\ strategy.wins_to_reset = 3) =>
        \A b \in BaseAmounts :
           /\ strategy.consecutive_wins = 1 => get_bet_amount(strategy, b) = 2 * b
           /\ strategy.consecutive_wins = 2 => get_bet_amount(strategy, b) = 4 * b
           /\ strategy.consecutive_wins = 3 => get_bet_amount(strategy, b) = b
           /\ (call.op = "update_history" /\ call.arg = "loss") =>
                 get_bet_amount(strategy, b) = b

C5_Witness ==
    /\ strategy.kind = "Paroli"
    /\ strategy.consecutive_wins = 3
    /\ call.op = "get_bet_amount" /\ call.ret = call.arg

\* C6: for every strategy variant, should_continue(max_losses) is False
\* exactly when consecutive_losses >= max_losses.
C6_StopLossPredicate ==
    /\ \A m \in MaxLossesSettings :
          (should_continue(strategy, m) = FALSE) <=> (strategy.consecutive_losses >= m)
    /\ call.op = "should_continue" =>
          ((call.ret = FALSE) <=> (strategy.consecutive_losses >= call.arg))

C6_Witness ==
    /\ strategy.kind = "Paroli"
    /\ call.op = "should_continue" /\ call.ret = FALSE
    /\ strategy.consecutive_losses = call.arg

\* ------------------------------------------------ claims on the round loops
\* the workers that hold a strategy object
HasStrategy(t) ==
    /\ wk[t].pc \notin {"unborn", "created", "thread_started", "done"}
    /\ wk[t].exit_reason \notin {"no_config", "no_game_url"}

\* the positions of a worker that has settled its round or left the loop
AfterRound ==
    {"wait", "wait_exit", "loop_head", "periodic_screenshot", "periodic_balance",
     "finally", "clear_running", "clear_thread"}

StopLossReached(t) ==
    HasStrategy(t) /\ wk[t].strategy.consecutive_losses >= wk[t].cfg.max_losses

\* while consecutive_losses >= max_losses the worker is never at place_bet,
\* nor anywhere between a placement and its settlement
C7_NoBetPastStopLoss ==
    \A t \in Workers : StopLossReached(t) => wk[t].pc \in AfterRound

\* C7: place_bet is never invoked while consecutive_losses >= max_losses;
\* once the max-th consecutive loss is consumed the worker places no other
\* bet, and it breaks out of the loop, tears down and ends.
C7_StopLoss ==
    /\ [](C7_NoBetPastStopLoss)
    /\ \A t \in Workers : StopLossReached(t) ~> (wk[t].pc = "done")

C7_Witness ==
    \E t \in Workers :
       /\ wk[t].pc = "finally" /\ wk[t].exit_reason = "stop_loss"
       /\ wk[t].cfg.strategy = "BettingStrategy" /\ wk[t].cfg.max_losses = 2
       /\ wk[t].strategy.consecutive_losses = 2

\* the rounds in which a stake was computed against a known balance it exceeds
StakeExceedsBalance(t) ==
    /\ wk[t].rnd.bet_decision # None
    /\ wk[t].current_balance # NoBalance
    /\ wk[t].rnd.current_bet_amount > wk[t].current_balance

\* C8: in a round whose stake is greater than the balance, place_bet and
\* update_history are not called, and the strategy (history, counters) is through
\* the whole round what it was when the round began.
C8_BankrollGuard ==
    \A t \in Workers :
       StakeExceedsBalance(t) =>
          /\ wk[t].rnd.skipped
          /\ ~wk[t].rnd.placed /\ ~wk[t].rnd.updated
          /\ wk[t].pc \in {"low_wait", "loop_head"}
          /\ wk[t].strategy = wk[t].rnd.at_start

C8_Witness ==
    \E t \in Workers :
       /\ StakeExceedsBalance(t) /\ wk[t].pc = "loop_head"
       /\ Len(wk[t].strategy.history) > 0

\* what update_history was fed in a settled round, against the raw result
C9_Classified ==
    \A t \in Workers :
       wk[t].rnd.updated =>
          LET r == wk[t].rnd
              before == r.at_start
              after == wk[t].strategy
          IN  /\ r.placed
              /\ (r.fed = "tie") <=> (r.actual_result = "tie")
              /\ (r.fed = "win") <=> (r.actual_result = r.bet_decision)
              /\ (r.fed = "loss") <=> (r.actual_result \notin {"tie", r.bet_decision})
              /\ after.history = Append(before.history, r.fed)
              /\ r.actual_result = None =>
                    after.consecutive_losses = before.consecutive_losses + 1

\* the step that reads the outcome settles the round, or leaves on a stop
C9_NotDropped ==
    \A t \in Workers :
       (wk[t].pc = "get_bet_outcome" /\ wk'[t].pc # "get_bet_outcome") =>
          \/ wk'[t].rnd.updated
          \/ impl = "web" /\ bot_state.stop_event /\ wk'[t].pc = "finally"

\* C9: update_history is fed 'tie' for a raw 'tie', 'win' for the side bet and
\* 'loss' for the other side or an unknown result; an unknown result read
\* after a successful placement adds exactly 1 to consecutive_losses, and a
\* result that was read is always fed to the strategy (unless the worker sees
\* the stop request first and leaves).
C9_Settling == [](C9_Classified) /\ [][C9_NotDropped]_vars

C9_Witness ==
    \E t \in Workers :
       /\ wk[t].rnd.updated /\ wk[t].rnd.actual_result = None
       /\ wk[t].rnd.bet_decision = "tiger"
       /\ wk[t].strategy.consecutive_losses = 2

\* C10 (as claimed): a stop request that reaches a started worker is always
\* honoured: the worker leaves the loop, tears down and ends.
C10_StopHonoured ==
    \A t \in Workers : wk[t].stop_sent ~> (wk[t].pc = "done")

\* --------------------------------------- further claims on the strategies
\* the last n entries of a sequence
LastN(seq, n) ==
    IF Len(seq) <= n THEN seq ELSE SubSeq(seq, Len(seq) - n + 1, Len(seq))

\* C16: after n update_history calls the history is exactly the last
\* min(n, 50) outcomes consumed, in the order they were consumed; it is never
\* longer than 50 entries, and the entry evicted is the oldest.
C16_HistoryRing ==
    /\ Len(strategy.history) <= 50
    /\ Len(strategy.history) = Min(Len(consumed), 50)
    /\ strategy.history = LastN(consumed, Min(Len(consumed), 50))

C16_Witness ==
    /\ Len(consumed) = 51 /\ consumed[1] = "win" /\ consumed[2] = "loss"
    /\ Len(strategy.history) = 50
    /\ strategy.history[1] = "loss" /\ strategy.history[50] = "win"

C18_AutoSide ==
    strategy.preferred_side = "auto" =>
       LET expected == IF strategy.kind # "Fibonacci" THEN "dragon"
                       ELSE IF Len(strategy.history) % 2 = 0 THEN "dragon"
                       ELSE "tiger"
       IN  /\ \A g \in GameStates : analyze(strategy, g) = expected
           /\ call.op = "analyze" => call.ret = expected

C18_Witness ==
    /\ call.op = "analyze" /\ call.ret = "tiger"
    /\ strategy.kind = "Fibonacci" /\ strategy.preferred_side = "auto"
    /\ Len(strategy.history) = 3

\* C19: in every reachable state of every strategy, consecutive_losses and
\* consecutive_wins are non-negative and at most one of them is nonzero.
C19_CounterExclusivity ==
    /\ strategy.consecutive_losses >= 0
    /\ strategy.consecutive_wins >= 0
    /\ strategy.consecutive_losses = 0 \/ strategy.consecutive_wins = 0

C19_Witness ==
    /\ consumed = <<"win", "win", "loss", "tie">>
    /\ strategy.kind = "Paroli"
    /\ strategy.consecutive_losses = 1 /\ strategy.consecutive_wins = 0

\* C20: for every strategy variant, every reachable strategy state and every
\* base_amount > 0, get_bet_amount(base_amount) is positive and >= base_amount.
C20_StakeFloor ==
    /\ \A b \in BaseAmounts :
          get_bet_amount(strategy, b) > 0 /\ get_bet_amount(strategy, b) >= b
    /\ call.op = "get_bet_amount" => call.ret > 0 /\ call.ret >= call.arg

C20_Witness ==
    /\ call.op = "get_bet_amount" /\ call.arg = 2 /\ call.ret = 2
    /\ strategy.kind = "D'Alembert"
    /\ consumed = <<"loss", "win", "win">>

C12_StopIdempotent ==
    [][ impl = "web" =>
          \A r \in RequestIds :
             ( /\ reqs[r].pc = "p_zombie"
               /\ ~is_alive(bot_state.thread)
               /\ reqs'[r].pc # "p_zombie" ) =>
                  /\ reqs'[r].pc = "200"
                  /\ bot_state' = bot_state /\ wk' = wk ]_vars

\* ------------------------------------------------- claims on the waits
\* the cancellation flag of worker t is raised
StopRequested(t) ==
    IF impl = "main" THEN ~wk[t].is_running ELSE bot_state.stop_event

\* worker t has taken a step of its wait
WaitStepped(t) ==
    wk'[t].pc # wk[t].pc \/ wk'[t].rnd.ticks # wk[t].rnd.ticks

\* C13 (as claimed): in both waits of the round loop the cancellation flag is
\* tested at every one-second tick: the tick that ends with the flag raised
\* is the last one, the worker then leaves the wait.
C13_CooperativeWait ==
    [][ \A t \in Workers :
           ( /\ wk[t].pc \in {"wait", "low_wait"}
             /\ StopRequested(t)
             /\ WaitStepped(t) ) =>
                wk'[t].pc \notin {"wait", "low_wait"} ]_vars

\* ------------------------------------------- claims on the single worker
\* worker t is executing the round loop
InLoop(t) ==
    wk[t].pc \in {"loop_head", "get_player_balance", "periodic_screenshot",
                  "periodic_balance", "get_game_state", "low_wait", "place_bet",
                  "pre_outcome", "pre_outcome_exit", "get_bet_outcome", "wait",
                  "wait_exit"}

\* C14 (as claimed): at any time at most one worker is executing the round
\* loop, for every interleaving of start requests, stop requests and a
\* finishing worker.
C14_SingleWorker ==
    \A t1, t2 \in Workers : (InLoop(t1) /\ InLoop(t2)) => t1 = t2

\* ---------------------------------------------- claims on the snapshot
\* the status dictionaries that were written as one whole value
WholeStatuses ==
    {InitStatus, StartingStatus} \cup {p \in Publishes : DOMAIN p = DOMAIN InitStatus}

\* C15 (as claimed): every publish replaces the status as one whole value, and
\* the snapshot a reader of get_updates obtains is the complete field set of
\* one publish, never a mix of fields written by different publishes.
C15_AtomicSnapshot ==
    /\ call.op = "update_status" => bot_state.status = call.arg
    /\ call.op = "get_updates" => call.ret.status \in WholeStatuses

\* ---------------------------------------------------- claims on the log
\* the log holds consecutive appends, the most recent one last
InAppendOrder(logs) ==
    /\ \A i \in 1..(Len(logs) - 1) : logs[i + 1] = logs[i] + 1
    /\ logs # <<>> => logs[Len(logs)] = call.arg

\* C21 (as claimed): after every add_log call completes, calls of the bot
\* thread and of request handlers interleaved included, the log holds at most
\* MAX_LOGS (200) entries, in append order, the oldest entries dropped first
\* and the most recent one last.
C21_BoundedLogTail ==
    [][ \A c \in LogCallers :
           (wk[c].pc # "idle" /\ wk'[c].pc = "idle") =>
              /\ Len(bot_state'.logs) <= MAX_LOGS
              /\ InAppendOrder(bot_state.logs)' ]_vars

\* ------------------------------------------- claims on the bankroll check
\* C22 (as claimed): whenever place_bet(side, amount) is invoked, amount is
\* <= the balance known to the orchestrator at that moment.
C22_BankrollChecked ==
    \A t \in Workers :
       wk[t].pc = "place_bet" =>
          /\ wk[t].current_balance # NoBalance
          /\ wk[t].rnd.current_bet_amount <= wk[t].current_balance

\* ------------------------------------- claims on the cancellation flag
\* C23 (as claimed): once the cancellation flag of a session has been set by
\* a stop request, no step resets it before the worker has finished teardown.
C23_FlagMonotonic ==
    [][ \A t \in Workers :
           (wk[t].stop_sent /\ StopRequested(t) /\ wk'[t].pc # "done") =>
              StopRequested(t)' ]_vars

\* ---------------------------------------- claims on the failures of a round
\* the rounds in which place_bet was called and returned False
PlacementFailed(t) == wk[t].rnd.placed /\ ~wk[t].rnd.bet_successful

\* through the rest of such a round the strategy is what it was when the
\* round began, and the worker is in the wait or back at the loop head
C24_NoUpdate ==
    \A t \in Workers :
       PlacementFailed(t) =>
          /\ ~wk[t].rnd.updated
          /\ wk[t].strategy = wk[t].rnd.at_start
          /\ wk[t].pc \in {"wait", "wait_exit", "loop_head"}

\* the step in which place_bet returns False goes to the wait (which is over
\* at once when int(wait_time) is 0) and leaves the strategy alone
C24_ToWaiting ==
    \A t \in Workers :
       (wk[t].pc = "place_bet" /\ PlacementFailed(t)') =>
          /\ wk'[t].strategy = wk[t].strategy
          /\ wk'[t].pc = IF int(wk[t].cfg.wait_time) = 0 THEN "loop_head" ELSE "wait"

\* C24: in a round where place_bet returns False, update_history is not
\* called, the strategy's counters, private counters and history are
\* unchanged, and the loop proceeds to Waiting.
C24_PlacementFailure == [](C24_NoUpdate) /\ [][C24_ToWaiting]_vars

C24_Witness ==
    \E t \in Workers :
       /\ PlacementFailed(t) /\ wk[t].pc = "wait"
       /\ wk[t].cfg.strategy = "D'Alembert"
       /\ wk[t].strategy.history = <<"loss">>
       /\ wk[t].strategy.current_bet_unit_multiplier = 2

\* the rounds in which get_game_state returned nothing: no bet, no outcome
\* read, no strategy update, and the worker is in the wait or back at the
\* loop head, still in its session
C25_StateFailure ==
    \A t \in Workers :
       wk[t].rnd.state_failed =>
          /\ wk[t].rnd.bet_decision = None
          /\ ~wk[t].rnd.placed /\ ~wk[t].rnd.updated
          /\ wk[t].strategy = wk[t].rnd.at_start
          /\ wk[t].pc \in {"wait", "wait_exit", "loop_head"}
          /\ wk[t].exit_reason = None

\* the round as it goes on from get_game_state when analyze returns side
RoundWith(t, game_state, side) ==
    IF impl = "main" THEN M_round(wk[t], game_state, side)
    ELSE W_round(wk[t], game_state, side)

\* an empty or None side is routed the same way, for every game state
C25_EmptySide ==
    \A t \in Workers :
       (wk[t].pc = "get_game_state" /\ ~StopRequested(t)) =>
          \A game_state \in GameStates, side \in {None, ""} :
             LET w == RoundWith(t, game_state, side)
             IN  /\ ~w.rnd.placed /\ ~w.rnd.updated
                 /\ w.strategy = wk[t].strategy
                 /\ w.pc = IF int(wk[t].cfg.wait_time) = 0 THEN "loop_head" ELSE "wait"
                 /\ w.exit_reason = None

\* the iteration that follows such a round goes on to the controller again
C25_Retry ==
    \A t \in Workers :
       ( /\ wk[t].pc = "loop_head" /\ wk[t].rnd.state_failed
         /\ ~StopRequested(t)
         /\ wk'[t].pc # "loop_head" ) =>
            wk'[t].pc \in {"get_player_balance", "periodic_screenshot", "get_game_state"}

\* C25: when get_game_state returns nothing, or analyze returns an empty or
\* None side, the round places no bet, calls neither get_bet_outcome nor
\* update_history, goes to Waiting and retries on the next iteration; the
\* session does not stop because of it.
C25_Tolerated ==
    /\ [](C25_StateFailure /\ C25_EmptySide)
    /\ [][C25_Retry]_vars

C25_Witness ==
    \E t \in Workers :
       /\ impl = "web" /\ wk[t].rnd.state_failed /\ wk[t].pc = "loop_head"
       /\ wk[t].strategy.consecutive_losses = 1

\* ------------------------------------- further claims on the progressions
\* C26: for every strategy variant, update_history('loss') increases
\* consecutive_losses by exactly 1 and sets consecutive_wins to 0, and
\* update_history('win') increases consecutive_wins by exactly 1 and sets
\* consecutive_losses to 0.
C26_BaseCounterRule ==
    [][ call'.op = "update_history" =>
          /\ call'.arg = "loss" =>
                /\ strategy'.consecutive_losses = strategy.consecutive_losses + 1
                /\ strategy'.consecutive_wins = 0
          /\ call'.arg = "win" =>
                /\ strategy'.consecutive_wins = strategy.consecutive_wins + 1
                /\ strategy'.consecutive_losses = 0 ]_vars

C26_Witness ==
    /\ call.op = "update_history" /\ call.arg = "win"
    /\ strategy.kind = "Martingale"
    /\ consumed = <<"loss", "loss", "win">>
    /\ strategy.consecutive_wins = 1 /\ strategy.consecutive_losses = 0

\* the last outcome of a sequence that is not a tie (None if there is none)
RECURSIVE LastDecisive(_)
LastDecisive(seq) ==
    IF seq = <<>> THEN None
    ELSE IF seq[Len(seq)] # "tie" THEN seq[Len(seq)]
    ELSE LastDecisive(SubSeq(seq, 1, Len(seq) - 1))

\* the Martingale stake is above base as long as the last outcome that was
\* not a tie is a loss, and base otherwise
C27_NotBeforeWin ==
    strategy.kind = "Martingale" =>
       \A b \in BaseAmounts :
          IF LastDecisive(consumed) = "loss"
             THEN get_bet_amount(strategy, b) > b
             ELSE get_bet_amount(strategy, b) = b

\* a win takes the stake to base, a tie leaves it what it was
C27_WinAndTie ==
    (strategy.kind = "Martingale" /\ call'.op = "update_history") =>
       \A b \in BaseAmounts :
          /\ call'.arg = "win" => get_bet_amount(strategy', b) = b
          /\ call'.arg = "tie" => get_bet_amount(strategy', b) = get_bet_amount(strategy, b)

FibRead(s) ==
    LET seq == FibExtend(s.fib_sequence, s.current_fib_index)
    IN  [idx |-> Min(s.current_fib_index, Len(seq) - 1), len |-> Len(seq)]

C28_InRange ==
    strategy.kind = "Fibonacci" =>
       /\ 0 <= strategy.current_fib_index
       /\ strategy.current_fib_index <= Len(strategy.fib_sequence) - 1
       /\ 0 <= FibRead(strategy).idx
       /\ FibRead(strategy).idx <= FibRead(strategy).len - 1

C28_Step ==
    (strategy.kind = "Fibonacci" /\ call'.op = "update_history") =>
       /\ call'.arg = "win" => strategy'.current_fib_index = 0
       /\ call'.arg = "loss" =>
             strategy'.current_fib_index =
                Min(strategy.current_fib_index + 1, Len(strategy.fib_sequence) - 1)

\* C28: in every reachable state 0 <= current_fib_index <=
\* len(fib_sequence) - 1, a Win resets the cursor to 0, a Loss at the end of
\* the sequence holds the cursor there, and get_bet_amount never reads
\* fib_sequence outside its bounds.
C28_FibCursor == [](C28_InRange) /\ [][C28_Step]_vars

C28_Witness ==
    /\ strategy.kind = "Fibonacci"
    /\ consumed = <<"loss", "loss", "loss">>
    /\ strategy.current_fib_index = Len(strategy.fib_sequence) - 1
    /\ call.op = "get_bet_amount"

\* C29 (as claimed): with preferred_side 'auto' the side chosen by
\* FibonacciStrategy.analyze flips after every consumed outcome, however many
\* outcomes have been consumed.
C29_FibonacciAlternates ==
    [][ ( /\ strategy.kind = "Fibonacci" /\ strategy.preferred_side = "auto"
          /\ call'.op = "update_history" ) =>
             \A g \in GameStates : analyze(strategy', g) # analyze(strategy, g) ]_vars

\* get_bet_amount leaves every reachable strategy object as it is
C30_NoEffect ==
    /\ get_bet_amount_effect(strategy) = strategy
    /\ \A b \in BaseAmounts :
          get_bet_amount(get_bet_amount_effect(strategy), b) = get_bet_amount(strategy, b)

\* a call changes nothing, and repeats the value of the call before it when
\* the base is the same and no update_history came between
C30_Repeatable ==
    call'.op = "get_bet_amount" =>
       /\ strategy' = strategy
       /\ (call.op = "get_bet_amount" /\ call.arg = call'.arg) => call'.ret = call.ret

\* C30: for every strategy variant, get_bet_amount(base) changes no strategy
\* state (history, consecutive_losses, consecutive_wins, current_fib_index,
\* fib_sequence, current_bet_unit_multiplier), and two consecutive calls with
\* the same base and no update_history in between return the same value.
C30_PureStake == [](C30_NoEffect) /\ [][C30_Repeatable]_vars

C30_Witness ==
    /\ strategy.kind = "Fibonacci"
    /\ consumed = <<"loss", "loss">>
    /\ call.op = "get_bet_amount" /\ call.arg = 2
    /\ strategy.fib_sequence = <<1, 1>>

\* ------------------------------------ claims on the progression's writers
\* C31: the strategy's history, counters and private counters change only
\* through update_history called in the Settling step (the step in which
\* get_bet_outcome returns); every other step of the orchestrator leaves the
\* strategy object it holds unchanged.
C31_WrittenInSettling ==
    [][ \A t \in Workers :
           ( /\ wk[t].strategy # NoStrategy /\ wk'[t].strategy # NoStrategy
             /\ wk'[t].strategy # wk[t].strategy ) =>
                /\ wk[t].pc = "get_bet_outcome"
                /\ wk'[t].rnd.updated
                /\ wk'[t].strategy = update_history(wk[t].strategy, wk'[t].rnd.fed) ]_vars

C31_Witness ==
    \E t \in Workers :
       /\ impl = "web" /\ wk[t].pc = "finally" /\ wk[t].exit_reason = "stop"
       /\ wk[t].cfg.strategy = "Paroli"
       /\ wk[t].strategy.history = <<"loss", "win">>
       /\ wk[t].strategy.consecutive_wins = 1

\* ------------------------------------- claims on the observed cancellation
\* the positions of a worker on its way out of the loop: the test that
\* follows a broken wait, the while test, and the teardown
OnTheWayOut ==
    {"pre_outcome_exit", "wait_exit", "loop_head",
     "finally", "clear_running", "clear_thread", "done"}

\* a worker that has read the flag as set is on its way out
C32_OnTheWayOut ==
    \A t \in Workers : wk[t].observed => wk[t].pc \in OnTheWayOut

\* and its steps only take it further out: no call to the controller, no
\* update_history
C32_NoFurtherAction ==
    \A t \in Workers :
       (wk[t].observed /\ wk'[t] # wk[t]) =>
          /\ wk'[t].pc \in {"finally", "clear_running", "clear_thread", "done"}
          /\ wk'[t].rnd.placed = FALSE /\ wk'[t].rnd.updated = FALSE
          /\ wk[t].strategy # NoStrategy /\ wk'[t].strategy # NoStrategy =>
                wk'[t].strategy = wk[t].strategy

\* C32: once the worker has observed the cancellation flag at one of its
\* check points, it performs no further place_bet, get_bet_outcome or
\* update_history call in that session and proceeds directly to teardown.
C32_NoActionAfterObserved == [](C32_OnTheWayOut) /\ [][C32_NoFurtherAction]_vars

\* ------------------------------------- claims on the snapshot's writers
\* the values the orchestrator writes to a field of the status
Published(field) ==
    { p[field] : p \in {q \in Publishes \cup {InitStatus, StartingStatus} :
                          field \in DOMAIN q} }

\* C33 (as claimed): the status is modified only by the worker's publishes
\* and by the reset of start; during a session its consecutive_losses and
\* current_bet_amount are values the orchestrator published.
C33_SingleWriter ==
    /\ [][ bot_state'.status # bot_state.status =>
             call'.op \in {"update_status", "start_bot"} ]_vars
    /\ [](bot_state.is_running =>
            /\ bot_state.status.consecutive_losses \in Published("consecutive_losses")
            /\ bot_state.status.current_bet_amount \in Published("current_bet_amount"))

\* ------------------------------------------- claims on the side chosen
\* C34: for any strategy variant and preferred_side, two objects fed outcome
\* sequences of equal length choose the same side at every point, whatever
\* the outcomes were and whatever game state each is shown.
C34_SideIndependent ==
    /\ Len(consumed[1]) = Len(consumed[2])
    /\ \A g1, g2 \in GameStates : analyze(strategy[1], g1) = analyze(strategy[2], g2)
    /\ call.op = "analyze" => call.ret[1] = call.ret[2]

C34_Witness ==
    /\ strategy[1].kind = "Fibonacci" /\ strategy[1].preferred_side = "auto"
    /\ consumed = << <<"win", "loss", "tie">>, <<"loss", "loss", "win">> >>
    /\ call.op = "analyze"
    /\ call.arg = << [history |-> <<>>], [history |-> <<"tiger", "tie">>] >>
    /\ call.ret = <<"tiger", "tiger">>

\* ------------------------------------------- claims on the last status
\* C35 (as claimed): the last status BotWorker.run publishes says 'Bot stopped
\* due to error.' if and only if run() ended because of an exception; a
\* session ended by a stop request or by the stop-loss publishes 'Bot
\* stopped.'.
C35_FinalStatus ==
    \A t \in Workers :
       (impl = "main" /\ wk[t].pc = "done") =>
          /\ (wk[t].final_action = "Bot stopped due to error.") <=>
                (wk[t].exit_reason = "error")
          /\ wk[t].exit_reason \in {"stop", "stop_loss"} =>
                wk[t].final_action = "Bot stopped."


\* ------------------------------------------------------------------ C36
\* the positions from which a round goes to the inter-round wait
RoundEnds == {"get_game_state", "place_bet", "get_bet_outcome"}

\* the step of worker t that ends a round without a stop request being seen
\* and takes the worker straight back to the top of the loop
NoTickWaited(t) ==
    /\ wk[t].pc \in RoundEnds
    /\ ~wk'[t].observed
    /\ wk'[t].pc = "loop_head"

\* C36 (as claimed): for every configured wait duration > 0, a round that
\* reaches the inter-round wait without cancellation waits at least one
\* one-second tick before the next observation: the loop never goes straight
\* back to the top.
C36_InterRoundDelay ==
    [][\A t \in Workers :
          (wk[t].pc \in RoundEnds /\ wk[t].cfg.wait_time > 0) => ~NoTickWaited(t)]_vars


\* ------------------------------------------------------------------ C37
\* bets the controller has accepted so far in a one-session run
SuccessfulPlacements == MaxRounds - budget.bets

\* outcomes the strategy of worker t has consumed so far (the history holds
\* them all while there are fewer than max_history_length of them)
UpdateHistoryCalls(t) == Len(wk[t].strategy.history)

\* an outcome was fed in this iteration only if place_bet returned True in it,
\* and the outcomes fed never outnumber the accepted bets
C37_AfterPlacement ==
    \A t \in Workers :
       HasStrategy(t) =>
          /\ wk[t].rnd.updated => (wk[t].rnd.placed /\ wk[t].rnd.bet_successful)
          /\ UpdateHistoryCalls(t) <= SuccessfulPlacements

\* a step feeds at most one outcome, to a worker that has fed none in this
\* iteration, and a step in which place_bet is called is the first call of
\* its iteration
C37_OncePerIteration ==
    \A t \in Workers :
       (HasStrategy(t) /\ wk'[t].strategy # NoStrategy) =>
          /\ wk'[t].strategy # wk[t].strategy =>
                /\ ~wk[t].rnd.updated /\ wk'[t].rnd.updated
                /\ Len(wk'[t].strategy.history) = UpdateHistoryCalls(t) + 1
          /\ (wk[t].pc = "place_bet" /\ wk'[t].rnd.placed) => ~wk[t].rnd.placed

\* C37: update_history is called at most once per loop iteration and only
\* after place_bet returned True in that iteration; the number of
\* update_history calls never exceeds the number of successful place_bet
\* calls, and at most one bet is placed per iteration.
C37_OneOutcomePerBet ==
    [](C37_AfterPlacement) /\ [][C37_OncePerIteration]_vars

\* two bets accepted and the outcome of the second just fed
C37_Witness ==
    \E t \in Workers :
       /\ HasStrategy(t) /\ wk[t].rnd.updated /\ wk[t].rnd.bet_successful
       /\ UpdateHistoryCalls(t) = 2 /\ SuccessfulPlacements = 2


\* ------------------------------------------------------------------ C38
\* the wins of a sequence of outcomes that come after its last loss
RECURSIVE WinsSinceLoss(_)
WinsSinceLoss(seq) ==
    IF seq = <<>> \/ seq[Len(seq)] = "loss" THEN 0
    ELSE WinsSinceLoss(SubSeq(seq, 1, Len(seq) - 1))
         + (IF seq[Len(seq)] = "win" THEN 1 ELSE 0)

\* the Paroli stake is doubled for the first wins_to_reset - 1 wins after a
\* loss (or the start) and is base from the win that reaches the target on,
\* whatever wins and ties follow
C38_BaseWhileStreak ==
    strategy.kind = "Paroli" =>
       \A b \in BaseAmounts :
          LET wins == WinsSinceLoss(consumed)
          IN  /\ wins >= strategy.wins_to_reset => get_bet_amount(strategy, b) = b
              /\ get_bet_amount(strategy, b) > b =>
                    (wins \in 1..(strategy.wins_to_reset - 1)
                       /\ get_bet_amount(strategy, b) = b * Pow2(wins))

\* once the target is reached a win or a tie leaves the stake at base
C38_NoRestart ==
    (/\ strategy.kind = "Paroli" /\ call'.op = "update_history"
     /\ strategy.consecutive_wins >= strategy.wins_to_reset
     /\ call'.arg # "loss") =>
       /\ strategy'.consecutive_wins >= strategy'.wins_to_reset
       /\ \A b \in BaseAmounts : get_bet_amount(strategy', b) = b

\* C38: once consecutive_wins has reached wins_to_reset, the Paroli
\* get_bet_amount returns base for every subsequent bet while the win streak
\* continues (further wins and ties do not restart the doubling); the
\* doubling resumes only after a loss has reset consecutive_wins to 0.
C38_ParoliNoRestart == [](C38_BaseWhileStreak) /\ [][C38_NoRestart]_vars

\* the target reached, then a tie and a fourth win, and the stake asked for
C38_Witness ==
    /\ strategy.kind = "Paroli"
    /\ consumed = <<"win", "win", "win", "tie", "win">>
    /\ call.op = "get_bet_amount" /\ call.ret = call.arg


\* ------------------------------------------------------------------ C39
\* worker t is in its round loop or has not yet closed its browser
LoopOrTeardown(t) ==
    InLoop(t) \/ wk[t].pc \in {"except", "finally"} \/ wk[t].gc = "open"

\* C39 (as claimed): in web_app, bot_state['is_running'] goes from True to
\* False only after the session's worker has finished GameController.close():
\* whenever is_running is False no bot thread is inside its round loop or
\* teardown, so that no session can be started while the browser of a
\* previous one is open.
C39_FlagCoversTeardown ==
    (impl = "web" /\ ~bot_state.is_running) =>
       \A t \in Workers : ~LoopOrTeardown(t)

====
